---- MODULE Spec2Model ----
(***************************************************************************)
(* Oliviathan chess core: Board (position + makeMove), MoveGen (pseudo-    *)
(* legal / legal generation, attack detection) and Perft (leaf counting).  *)
(* A board is a record with the fields of class Board; operations on it    *)
(* are operators that return the board after the call.                     *)
(***************************************************************************)
EXTENDS Integers, Sequences, FiniteSets, TLC

\* ------------------------------------------------------------------------
\* Board constants and small helpers
\* ------------------------------------------------------------------------
BOARD_SIZE == 8

NUM_SQUARES == 64

Pieces == {"EMPTY", "PAWN", "KNIGHT", "BISHOP", "ROOK", "QUEEN", "KING"}

Colours == {"WHITE", "BLACK", "NO_COLOUR"}

SquareIdx == 0 .. (NUM_SQUARES - 1)

\* Square() : piece(EMPTY), colour(NO_COLOUR)
EmptySquare == [piece |-> "EMPTY", colour |-> "NO_COLOUR"]

Sq(p, c) == [piece |-> p, colour |-> c]

\* Move(f, t, promo = EMPTY, castle = false, ep = false)
Move(f, t, promo, castle, ep) ==
    [from |-> f, to |-> t, promotion |-> promo, isCastle |-> castle, isEnPassant |-> ep]

toIndex(file, rank) == rank * BOARD_SIZE + file

FileOf(index) == index % BOARD_SIZE

RankOf(index) == index \div BOARD_SIZE

Abs(x) == IF x < 0 THEN -x ELSE x

Other(c) == IF c = "WHITE" THEN "BLACK" ELSE "WHITE"

OnBoard(file, rank) == file >= 0 /\ file < BOARD_SIZE /\ rank >= 0 /\ rank < BOARD_SIZE

\* Board::getSquare: bounds-checked read
getSquare(b, index) ==
    IF index < 0 \/ index >= NUM_SQUARES THEN EmptySquare ELSE b.squares[index]

\* ------------------------------------------------------------------------
\* Board::reset / Board::initialisePosition
\* ------------------------------------------------------------------------
backRank == <<"ROOK", "KNIGHT", "BISHOP", "QUEEN", "KING", "BISHOP", "KNIGHT", "ROOK">>

initialisePosition ==
    [i \in SquareIdx |->
        CASE RankOf(i) = 0 -> Sq(backRank[FileOf(i) + 1], "WHITE")
          [] RankOf(i) = 1 -> Sq("PAWN", "WHITE")
          [] RankOf(i) = 6 -> Sq("PAWN", "BLACK")
          [] RankOf(i) = 7 -> Sq(backRank[FileOf(i) + 1], "BLACK")
          [] OTHER -> EmptySquare]

\* castlingRights index: 0 white kingside, 1 white queenside,
\*                       2 black kingside, 3 black queenside
reset ==
    [squares         |-> initialisePosition,
     sideToMove      |-> "WHITE",
     castlingRights  |-> [i \in 0 .. 3 |-> TRUE],
     enPassantSquare |-> -1,
     halfmoveClock   |-> 0,
     fullmoveNumber  |-> 1]

\* ------------------------------------------------------------------------
\* Board::makeMove(const Move&) and its helpers
\* ------------------------------------------------------------------------
\* variant: the rights are recomputed from the move alone
RightsAfterFromRecomputed(rights, move) ==
    [i \in 0 .. 3 |->
        /\ ~(move.from = toIndex(4, 0) /\ i \in {0, 1})
        /\ ~(move.from = toIndex(4, 7) /\ i \in {2, 3})
        /\ ~(move.from = toIndex(0, 0) /\ i = 1)
        /\ ~(move.from = toIndex(7, 0) /\ i = 0)
        /\ ~(move.from = toIndex(0, 7) /\ i = 3)
        /\ ~(move.from = toIndex(7, 7) /\ i = 2)]

\* Rights revoked by the from-square (king / rook home squares)
RightsAfterFrom(rights, move) ==
    [i \in 0 .. 3 |->
        rights[i]
        /\ ~(move.from = toIndex(4, 0) /\ i \in {0, 1})
        /\ ~(move.from = toIndex(4, 7) /\ i \in {2, 3})
        /\ ~(move.from = toIndex(0, 0) /\ i = 1)
        /\ ~(move.from = toIndex(7, 0) /\ i = 0)
        /\ ~(move.from = toIndex(0, 7) /\ i = 3)
        /\ ~(move.from = toIndex(7, 7) /\ i = 2)]

\* "If rook is captured": reads squares[move.to] of the board as it is when
\* updateCastlingRights runs, i.e. after the mover has been put on move.to
RookOnTo(sqs, move) == sqs[move.to].piece = "ROOK"

RightsAfterTo(rights, sqs, move) ==
    [i \in 0 .. 3 |->
        rights[i]
        /\ ~(move.to = toIndex(0, 0) /\ RookOnTo(sqs, move) /\ i = 1)
        /\ ~(move.to = toIndex(7, 0) /\ RookOnTo(sqs, move) /\ i = 0)
        /\ ~(move.to = toIndex(0, 7) /\ RookOnTo(sqs, move) /\ i = 3)
        /\ ~(move.to = toIndex(7, 7) /\ RookOnTo(sqs, move) /\ i = 2)]

\* sqs is the squares array at the time of the call
updateCastlingRights(rights, sqs, move) ==
    RightsAfterTo(RightsAfterFrom(rights, move), sqs, move)

isLegalCastle(b, move) ==
    LET rank == IF b.sideToMove = "WHITE" THEN 0 ELSE 7
    IN  IF move.to > move.from
        THEN /\ (IF b.sideToMove = "WHITE" THEN b.castlingRights[0] ELSE b.castlingRights[2])
             /\ \A f \in 5 .. 6 : getSquare(b, toIndex(f, rank)).piece = "EMPTY"
        ELSE /\ (IF b.sideToMove = "WHITE" THEN b.castlingRights[1] ELSE b.castlingRights[3])
             /\ \A f \in 1 .. 3 : getSquare(b, toIndex(f, rank)).piece = "EMPTY"

isLegalEnPassant(b, move) == b.enPassantSquare = move.to

\* Rook squares used by the castle branch
CastleRookFrom(move) == IF move.to > move.from THEN move.from + 3 ELSE move.from - 4

CastleRookTo(move) == IF move.to > move.from THEN move.from + 1 ELSE move.from - 1

\* variant: the square emptied is the destination
EpCaptureSqOnTarget(b, move) == move.to

\* en-passant victim square
EpCaptureSq(b, move) ==
    move.to + (IF b.sideToMove = "WHITE" THEN -BOARD_SIZE ELSE BOARD_SIZE)

\* Every array index makeMove touches for this move lies inside squares[]
MoveInRange(b, move) ==
    /\ move.from \in SquareIdx
    /\ move.to \in SquareIdx
    /\ move.isCastle =>
         (CastleRookFrom(move) \in SquareIdx /\ CastleRookTo(move) \in SquareIdx)
    /\ (~move.isCastle /\ move.isEnPassant) => EpCaptureSq(b, move) \in SquareIdx

Flip(b) == IF b.sideToMove = "WHITE" THEN "BLACK" ELSE "WHITE"

\* variant: the test is made on the side that is about to move
NextFullmoveBeforeFlip(b) ==
    IF b.sideToMove = "WHITE" THEN b.fullmoveNumber + 1 ELSE b.fullmoveNumber

\* fullmoveNumber++ when the side to move has become WHITE
NextFullmove(b) == IF Flip(b) = "WHITE" THEN b.fullmoveNumber + 1 ELSE b.fullmoveNumber

\* variant: the castle branch leaves the castling rights alone
makeMoveCastleKeepsRights(b, move) ==
    LET rookFrom == CastleRookFrom(move)
        rookTo   == CastleRookTo(move)
        s1 == [b.squares EXCEPT ![rookTo] = b.squares[rookFrom]]
        s2 == [s1 EXCEPT ![rookFrom] = EmptySquare]
        s3 == [s2 EXCEPT ![move.to] = s2[move.from]]
        s4 == [s3 EXCEPT ![move.from] = EmptySquare]
    IN  [ok |-> TRUE,
         board |-> [squares         |-> s4,
                    sideToMove      |-> Flip(b),
                    castlingRights  |-> b.castlingRights,
                    enPassantSquare |-> -1,
                    halfmoveClock   |-> b.halfmoveClock + 1,
                    fullmoveNumber  |-> NextFullmove(b)]]

makeMoveCastle(b, move) ==
    LET rookFrom == CastleRookFrom(move)
        rookTo   == CastleRookTo(move)
        s1 == [b.squares EXCEPT ![rookTo] = b.squares[rookFrom]]
        s2 == [s1 EXCEPT ![rookFrom] = EmptySquare]
        s3 == [s2 EXCEPT ![move.to] = s2[move.from]]
        s4 == [s3 EXCEPT ![move.from] = EmptySquare]
    IN  [ok |-> TRUE,
         board |-> [squares         |-> s4,
                    sideToMove      |-> Flip(b),
                    castlingRights  |-> updateCastlingRights(b.castlingRights, s4, move),
                    enPassantSquare |-> -1,
                    halfmoveClock   |-> b.halfmoveClock + 1,
                    fullmoveNumber  |-> NextFullmove(b)]]

makeMoveEnPassant(b, move) ==
    LET s1 == [b.squares EXCEPT ![move.to] = b.squares[move.from]]
        s2 == [s1 EXCEPT ![move.from] = EmptySquare]
        s3 == [s2 EXCEPT ![EpCaptureSq(b, move)] = EmptySquare]
    IN  [ok |-> TRUE,
         board |-> [squares         |-> s3,
                    sideToMove      |-> Flip(b),
                    castlingRights  |-> updateCastlingRights(b.castlingRights, s3, move),
                    enPassantSquare |-> -1,
                    halfmoveClock   |-> 0,
                    fullmoveNumber  |-> NextFullmove(b)]]

\* variant: a standard move that is no double step keeps the old target
StandardEnPassantSticky(b, move) ==
    IF b.squares[move.from].piece = "PAWN" /\ Abs(move.to - move.from) = 2 * BOARD_SIZE
    THEN (move.from + move.to) \div 2
    ELSE b.enPassantSquare

\* variant: the target is the square the pawn lands on
StandardEnPassantOnDestination(b, move) ==
    IF b.squares[move.from].piece = "PAWN" /\ Abs(move.to - move.from) = 2 * BOARD_SIZE
    THEN move.to
    ELSE -1

\* enPassantSquare after a standard move
StandardEnPassant(b, move) ==
    IF b.squares[move.from].piece = "PAWN" /\ Abs(move.to - move.from) = 2 * BOARD_SIZE
    THEN (move.from + move.to) \div 2
    ELSE -1

\* halfmoveClock after a standard move; s1 is squares[] after the
\* destination has been overwritten (line 155/157), which is what the
\* test on line 160 reads
StandardHalfmove(b, s1, move) ==
    IF s1[move.to].piece # "EMPTY" \/ s1[move.from].piece = "PAWN"
    THEN 0
    ELSE b.halfmoveClock + 1

makeMoveStandard(b, move) ==
    LET s1 == IF move.promotion # "EMPTY"
              THEN [b.squares EXCEPT ![move.to] = Sq(move.promotion, b.squares[move.from].colour)]
              ELSE [b.squares EXCEPT ![move.to] = b.squares[move.from]]
        s2 == [s1 EXCEPT ![move.from] = EmptySquare]
    IN  [ok |-> TRUE,
         board |-> [squares         |-> s2,
                    sideToMove      |-> Flip(b),
                    castlingRights  |-> updateCastlingRights(b.castlingRights, s2, move),
                    enPassantSquare |-> StandardEnPassant(b, move),
                    halfmoveClock   |-> StandardHalfmove(b, s1, move),
                    fullmoveNumber  |-> NextFullmove(b)]]

\* variant: the en-passant target is cleared before the move is validated
FailedClearsEnPassant(b) == [ok |-> FALSE, board |-> [b EXCEPT !.enPassantSquare = -1]]

\* return false
Failed(b) == [ok |-> FALSE, board |-> b]

\* Source square must hold a piece of the side to move
SourceOk(b, move) ==
    ~(b.squares[move.from].colour # b.sideToMove \/ b.squares[move.from].piece = "EMPTY")

makeMove(b, move) ==
    IF ~SourceOk(b, move) THEN Failed(b)
    ELSE IF move.isCastle
         THEN (IF ~isLegalCastle(b, move) THEN Failed(b) ELSE makeMoveCastle(b, move))
    ELSE IF move.isEnPassant
         THEN (IF ~isLegalEnPassant(b, move) THEN Failed(b) ELSE makeMoveEnPassant(b, move))
    ELSE makeMoveStandard(b, move)

\* ------------------------------------------------------------------------
\* MoveGen: offsets (file delta, rank delta)
\* ------------------------------------------------------------------------
knightOffsets == << <<1, 2>>, <<2, 1>>, <<2, -1>>, <<1, -2>>,
                    <<-1, -2>>, <<-2, -1>>, <<-2, 1>>, <<-1, 2>> >>

bishopOffsets == << <<1, 1>>, <<1, -1>>, <<-1, -1>>, <<-1, 1>> >>

rookOffsets == << <<1, 0>>, <<0, 1>>, <<-1, 0>>, <<0, -1>> >>

kingOffsets == << <<1, 1>>, <<1, 0>>, <<1, -1>>, <<0, -1>>,
                  <<-1, -1>>, <<-1, 0>>, <<-1, 1>>, <<0, 1>> >>

\* moves.emplace_back(from, to)
Plain(from, to) == Move(from, to, "EMPTY", FALSE, FALSE)

\* the four promotion moves, in the order they are emplaced
Promotions(from, to) ==
    << Move(from, to, "QUEEN", FALSE, FALSE), Move(from, to, "ROOK", FALSE, FALSE),
       Move(from, to, "BISHOP", FALSE, FALSE), Move(from, to, "KNIGHT", FALSE, FALSE) >>

\* concatenation of a sequence of sequences
RECURSIVE Flatten(_)
Flatten(ss) == IF ss = << >> THEN << >> ELSE Head(ss) \o Flatten(Tail(ss))

PawnDirection(colour) == IF colour = "WHITE" THEN 1 ELSE -1

PawnStartRank(colour) == IF colour = "WHITE" THEN 1 ELSE 6

PawnPromotionRank(colour) == IF colour = "WHITE" THEN 7 ELSE 0

\* variant: no double step from the start rank
PawnPushesSingleOnly(b, from) ==
    LET pawn == getSquare(b, from)
        file == FileOf(from)
        rank == RankOf(from)
        fwdRank == rank + PawnDirection(pawn.colour)
        to == toIndex(file, fwdRank)
    IN  IF fwdRank >= 0 /\ fwdRank < BOARD_SIZE /\ getSquare(b, to).piece = "EMPTY"
        THEN (IF fwdRank = PawnPromotionRank(pawn.colour)
              THEN Promotions(from, to) ELSE << Plain(from, to) >>)
        ELSE << >>

\* pawn pushes: single step (with promotion expansion) then double step
PawnPushes(b, from) ==
    LET pawn == getSquare(b, from)
        file == FileOf(from)
        rank == RankOf(from)
        direction == PawnDirection(pawn.colour)
        fwdRank == rank + direction
        to == toIndex(file, fwdRank)
        dblTo == toIndex(file, rank + 2 * direction)
    IN  IF fwdRank >= 0 /\ fwdRank < BOARD_SIZE /\ getSquare(b, to).piece = "EMPTY"
        THEN (IF fwdRank = PawnPromotionRank(pawn.colour)
              THEN Promotions(from, to) ELSE << Plain(from, to) >>)
             \o (IF rank = PawnStartRank(pawn.colour) /\ getSquare(b, dblTo).piece = "EMPTY"
                 THEN << Plain(from, dblTo) >> ELSE << >>)
        ELSE << >>

\* variant: a capture onto the last rank is added as one move without promotion
PawnCaptureUnpromoted(b, from, df) ==
    LET pawn == getSquare(b, from)
        capFile == FileOf(from) + df
        capRank == RankOf(from) + PawnDirection(pawn.colour)
        to == toIndex(capFile, capRank)
        target == getSquare(b, to)
    IN  IF OnBoard(capFile, capRank) /\ target.piece # "EMPTY" /\ target.colour # pawn.colour
        THEN << Plain(from, to) >>
        ELSE << >>

\* pawn capture towards file + df
PawnCapture(b, from, df) ==
    LET pawn == getSquare(b, from)
        capFile == FileOf(from) + df
        capRank == RankOf(from) + PawnDirection(pawn.colour)
        to == toIndex(capFile, capRank)
        target == getSquare(b, to)
    IN  IF OnBoard(capFile, capRank) /\ target.piece # "EMPTY" /\ target.colour # pawn.colour
        THEN (IF capRank = PawnPromotionRank(pawn.colour)
              THEN Promotions(from, to) ELSE << Plain(from, to) >>)
        ELSE << >>

addPawnMoves(b, from) ==
    PawnPushes(b, from) \o PawnCapture(b, from, -1) \o PawnCapture(b, from, 1)

\* one fixed-offset step (knight, king): on board and empty or opposite colour
StepMove(b, from, offset) ==
    LET toFile == FileOf(from) + offset[1]
        toRank == RankOf(from) + offset[2]
        to == toIndex(toFile, toRank)
        target == getSquare(b, to)
    IN  IF OnBoard(toFile, toRank)
           /\ (target.piece = "EMPTY" \/ target.colour # getSquare(b, from).colour)
        THEN << Plain(from, to) >> ELSE << >>

addKnightMoves(b, from) == Flatten([i \in 1 .. 8 |-> StepMove(b, from, knightOffsets[i])])

addKingMoves(b, from) == Flatten([i \in 1 .. 8 |-> StepMove(b, from, kingOffsets[i])])

\* variant: the ray goes on behind a piece of the other colour
RECURSIVE RayMovesThrough(_, _, _, _)
RayMovesThrough(b, from, offset, dist) ==
    LET toFile == FileOf(from) + offset[1] * dist
        toRank == RankOf(from) + offset[2] * dist
        to == toIndex(toFile, toRank)
        target == getSquare(b, to)
    IN  IF dist >= BOARD_SIZE \/ ~OnBoard(toFile, toRank) THEN << >>
        ELSE IF target.piece = "EMPTY" \/ target.colour # getSquare(b, from).colour
             THEN << Plain(from, to) >> \o RayMovesThrough(b, from, offset, dist + 1)
        ELSE << >>

\* one ray from dist onward: stop off-board, include a capture, stop at any piece
RECURSIVE RayMoves(_, _, _, _)
RayMoves(b, from, offset, dist) ==
    LET toFile == FileOf(from) + offset[1] * dist
        toRank == RankOf(from) + offset[2] * dist
        to == toIndex(toFile, toRank)
        target == getSquare(b, to)
    IN  IF dist >= BOARD_SIZE \/ ~OnBoard(toFile, toRank) THEN << >>
        ELSE IF target.piece = "EMPTY"
             THEN << Plain(from, to) >> \o RayMoves(b, from, offset, dist + 1)
        ELSE IF target.colour # getSquare(b, from).colour THEN << Plain(from, to) >>
        ELSE << >>

addBishopMoves(b, from) == Flatten([i \in 1 .. 4 |-> RayMoves(b, from, bishopOffsets[i], 1)])

addRookMoves(b, from) == Flatten([i \in 1 .. 4 |-> RayMoves(b, from, rookOffsets[i], 1)])

addQueenMoves(b, from) == addBishopMoves(b, from) \o addRookMoves(b, from)

\* ------------------------------------------------------------------------
\* MoveGen::isSquareAttacked
\* ------------------------------------------------------------------------
\* a fixed-offset step from sq lands on square
StepHits(sq, offset, square) ==
    LET toFile == FileOf(sq) + offset[1]
        toRank == RankOf(sq) + offset[2]
    IN  OnBoard(toFile, toRank) /\ toIndex(toFile, toRank) = square

\* variant: a ray reaches only the adjacent square
RayHitsAdjacent(b, sq, offset, dist, square) ==
    LET toFile == FileOf(sq) + offset[1] * dist
        toRank == RankOf(sq) + offset[2] * dist
    IN  OnBoard(toFile, toRank) /\ toIndex(toFile, toRank) = square

\* a ray from sq reaches square before leaving the board or meeting a piece
RECURSIVE RayHits(_, _, _, _, _)
RayHits(b, sq, offset, dist, square) ==
    LET toFile == FileOf(sq) + offset[1] * dist
        toRank == RankOf(sq) + offset[2] * dist
        to == toIndex(toFile, toRank)
    IN  IF dist >= BOARD_SIZE \/ ~OnBoard(toFile, toRank) THEN FALSE
        ELSE IF to = square THEN TRUE
        ELSE IF getSquare(b, to).piece # "EMPTY" THEN FALSE
        ELSE RayHits(b, sq, offset, dist + 1, square)

\* variant: the pawn attacks the two squares diagonally behind it
PawnAttacksBackward(sq, attacker, square) ==
    \E df \in {-1, 1} : StepHits(sq, <<df, -PawnDirection(attacker)>>, square)

\* pawn of colour attacker on sq attacks square: diagonal-forward only
PawnAttacks(sq, attacker, square) ==
    \E df \in {-1, 1} : StepHits(sq, <<df, PawnDirection(attacker)>>, square)

\* the piece standing on sq attacks square
PieceAttacks(b, sq, attacker, square) ==
    LET piece == getSquare(b, sq).piece
    IN  CASE piece = "PAWN"   -> PawnAttacks(sq, attacker, square)
          [] piece = "KNIGHT" -> \E i \in 1 .. 8 : StepHits(sq, knightOffsets[i], square)
          [] piece = "BISHOP" -> \E i \in 1 .. 4 : RayHits(b, sq, bishopOffsets[i], 1, square)
          [] piece = "ROOK"   -> \E i \in 1 .. 4 : RayHits(b, sq, rookOffsets[i], 1, square)
          [] piece = "QUEEN"  -> \/ \E i \in 1 .. 4 : RayHits(b, sq, bishopOffsets[i], 1, square)
                                 \/ \E i \in 1 .. 4 : RayHits(b, sq, rookOffsets[i], 1, square)
          [] piece = "KING"   -> \E i \in 1 .. 8 : StepHits(sq, kingOffsets[i], square)
          [] OTHER -> FALSE

isSquareAttacked(b, square, attacker) ==
    \E sq \in SquareIdx :
        /\ ~(getSquare(b, sq).colour # attacker \/ getSquare(b, sq).piece = "EMPTY")
        /\ PieceAttacks(b, sq, attacker, square)

\* the king test of the loop body
IsKingOf(b, sq, colour) ==
    getSquare(b, sq).piece = "KING" /\ getSquare(b, sq).colour = colour

\* first square in index order holding that king, -1 when there is none
findKingSquare(b, colour) ==
    LET ks == {sq \in SquareIdx : IsKingOf(b, sq, colour)}
    IN  IF ks = {} THEN -1 ELSE CHOOSE sq \in ks : \A o \in ks : sq <= o

\* ------------------------------------------------------------------------
\* MoveGen: castling, en passant, pseudo-legal and legal generation
\* ------------------------------------------------------------------------
\* variant: the squares the king crosses are not tested for attack
CastleWingUnchecked(b, right, emptyFiles, safeFiles, toFile) ==
    LET side == b.sideToMove
        rank == IF side = "WHITE" THEN 0 ELSE 7
        kingFrom == toIndex(4, rank)
    IN  IF /\ b.castlingRights[right]
           /\ \A f \in emptyFiles : getSquare(b, toIndex(f, rank)).piece = "EMPTY"
        THEN << Move(kingFrom, toIndex(toFile, rank), "EMPTY", TRUE, FALSE) >>
        ELSE << >>

\* one wing: right set, squares between empty, king path not attacked
CastleWing(b, right, emptyFiles, safeFiles, toFile) ==
    LET side == b.sideToMove
        rank == IF side = "WHITE" THEN 0 ELSE 7
        kingFrom == toIndex(4, rank)
    IN  IF /\ b.castlingRights[right]
           /\ \A f \in emptyFiles : getSquare(b, toIndex(f, rank)).piece = "EMPTY"
           /\ \A f \in safeFiles : ~isSquareAttacked(b, toIndex(f, rank), Other(side))
        THEN << Move(kingFrom, toIndex(toFile, rank), "EMPTY", TRUE, FALSE) >>
        ELSE << >>

addCastlingMoves(b) ==
    CastleWing(b, IF b.sideToMove = "WHITE" THEN 0 ELSE 2, {5, 6}, {4, 5, 6}, 6)
    \o CastleWing(b, IF b.sideToMove = "WHITE" THEN 1 ELSE 3, {1, 2, 3}, {4, 3, 2}, 2)

\* the en-passant capture by a pawn standing on file + df, if there is one
EnPassantFrom(b, df) ==
    LET epSq == b.enPassantSquare
        side == b.sideToMove
        pawnRank == IF side = "WHITE" THEN RankOf(epSq) - 1 ELSE RankOf(epSq) + 1
        pawnFile == FileOf(epSq) + df
        from == toIndex(pawnFile, pawnRank)
        pawn == getSquare(b, from)
    IN  IF pawnFile >= 0 /\ pawnFile < BOARD_SIZE /\ pawn.piece = "PAWN" /\ pawn.colour = side
        THEN << Move(from, epSq, "EMPTY", FALSE, TRUE) >> ELSE << >>

addEnPassantMoves(b) ==
    LET epSq == b.enPassantSquare
        pawnRank == IF b.sideToMove = "WHITE" THEN RankOf(epSq) - 1 ELSE RankOf(epSq) + 1
    IN  IF epSq = -1 THEN << >>
        ELSE IF pawnRank < 0 \/ pawnRank >= BOARD_SIZE THEN << >>
        ELSE EnPassantFrom(b, -1) \o EnPassantFrom(b, 1)

\* moves of the piece on sq, nothing when sq is not the side to move's
PieceMoves(b, sq) ==
    LET square == getSquare(b, sq)
    IN  IF square.colour # b.sideToMove \/ square.piece = "EMPTY" THEN << >>
        ELSE CASE square.piece = "PAWN"   -> addPawnMoves(b, sq)
               [] square.piece = "KNIGHT" -> addKnightMoves(b, sq)
               [] square.piece = "BISHOP" -> addBishopMoves(b, sq)
               [] square.piece = "ROOK"   -> addRookMoves(b, sq)
               [] square.piece = "QUEEN"  -> addQueenMoves(b, sq)
               [] square.piece = "KING"   -> addKingMoves(b, sq)
               [] OTHER -> << >>

generatePseudoLegalMoves(b) ==
    Flatten([i \in 1 .. NUM_SQUARES |-> PieceMoves(b, i - 1)])
    \o addCastlingMoves(b) \o addEnPassantMoves(b)

\* variant: the filter only asks that the move applies
KeepsKingSafeUnchecked(b, move) == makeMove(b, move).ok

\* the move passes the legality filter: it applies and the mover's king
\* exists and is not attacked afterwards
KeepsKingSafe(b, move) ==
    LET r == makeMove(b, move)
        kingSq == findKingSquare(r.board, b.sideToMove)
    IN  r.ok /\ kingSq # -1 /\ ~isSquareAttacked(r.board, kingSq, Other(b.sideToMove))

generateLegalMoves(b) ==
    SelectSeq(generatePseudoLegalMoves(b), LAMBDA m : KeepsKingSafe(b, m))

\* ------------------------------------------------------------------------
\* Perft::run / Perft::perftRecursive
\* ------------------------------------------------------------------------
RECURSIVE perftRecursive(_, _)
\* number of nodes++ executed below this call; Part[lo, hi] is the count
\* added by iterations lo .. hi of the for loop over moves (the range is
\* halved so that the evaluation stays shallow)
perftRecursive(b, depth) ==
    IF depth = 0 THEN 1
    ELSE LET moves == generateLegalMoves(b)
             n == Len(moves)
             Part[lo \in 1 .. n, hi \in 1 .. n] ==
                 IF lo = hi
                 THEN (LET r == makeMove(b, moves[lo])
                       IN  IF ~r.ok THEN 0 ELSE perftRecursive(r.board, depth - 1))
                 ELSE Part[lo, (lo + hi) \div 2] + Part[((lo + hi) \div 2) + 1, hi]
         IN  IF n = 0 THEN 0 ELSE Part[1, n]

\* ------------------------------------------------------------------------
\* Move text (std::string): a sequence of characters; Code is the char value
\* ------------------------------------------------------------------------
LowerCase == <<"a", "b", "c", "d", "e", "f", "g", "h", "i", "j", "k", "l", "m",
               "n", "o", "p", "q", "r", "s", "t", "u", "v", "w", "x", "y", "z">>

UpperCase == <<"A", "B", "C", "D", "E", "F", "G", "H", "I", "J", "K", "L", "M",
               "N", "O", "P", "Q", "R", "S", "T", "U", "V", "W", "X", "Y", "Z">>

Digits == <<"0", "1", "2", "3", "4", "5", "6", "7", "8", "9">>

IndexIn(seq, c) == CHOOSE i \in 1 .. Len(seq) : seq[i] = c

\* ASCII value of a character
Code(c) ==
    IF \E i \in 1 .. 26 : LowerCase[i] = c THEN 96 + IndexIn(LowerCase, c)
    ELSE IF \E i \in 1 .. 26 : UpperCase[i] = c THEN 64 + IndexIn(UpperCase, c)
    ELSE 47 + IndexIn(Digits, c)

\* variant: the character is compared as typed
ToLowerAsTyped(code) == code

\* std::tolower on a char value
ToLower(code) == IF code >= 65 /\ code <= 90 THEN code + 32 ELSE code

\* the promotion switch on the 5th character
PromotionOf(text) ==
    IF Len(text) >= 5
    THEN CASE ToLower(Code(text[5])) = Code("q") -> "QUEEN"
           [] ToLower(Code(text[5])) = Code("r") -> "ROOK"
           [] ToLower(Code(text[5])) = Code("b") -> "BISHOP"
           [] ToLower(Code(text[5])) = Code("n") -> "KNIGHT"
           [] OTHER -> "EMPTY"
    ELSE "EMPTY"

\* Move move(0, 0) of makeMove(const std::string&)
NullMove == Move(0, 0, "EMPTY", FALSE, FALSE)

\* the coordinate checks of parseMove
WellFormed(text) ==
    /\ Len(text) >= 4
    /\ ~(Code(text[1]) < Code("a") \/ Code(text[1]) > Code("h")
         \/ Code(text[3]) < Code("a") \/ Code(text[3]) > Code("h"))
    /\ ~(Code(text[2]) < Code("1") \/ Code(text[2]) > Code("8")
         \/ Code(text[4]) < Code("1") \/ Code(text[4]) > Code("8"))

\* Board::parseMove: [ok, move]; move stays the null move on failure
parseMove(b, text) ==
    IF ~WellFormed(text) THEN [ok |-> FALSE, move |-> NullMove]
    ELSE LET ff == Code(text[1]) - Code("a")
             fr == Code(text[2]) - Code("1")
             tf == Code(text[3]) - Code("a")
             tr == Code(text[4]) - Code("1")
             from == toIndex(ff, fr)
             to == toIndex(tf, tr)
             src == getSquare(b, from)
             castle == src.piece = "KING" /\ Abs(tf - ff) = 2 /\ fr = tr
             ep == /\ src.piece = "PAWN"
                   /\ b.squares[to].piece = "EMPTY"
                   /\ ff # tf
                   /\ b.enPassantSquare = to
         IN  [ok |-> TRUE, move |-> Move(from, to, PromotionOf(text), castle, ep)]

\* Board::makeMove(const std::string&)
makeMoveText(b, text) ==
    LET p == parseMove(b, text)
    IN  IF ~p.ok THEN Failed(b) ELSE makeMove(b, p.move)

\* variant: the promotion letter is left out
moveToStringWithoutPromotion(move) ==
    <<LowerCase[FileOf(move.from) + 1], Digits[RankOf(move.from) + 2],
      LowerCase[FileOf(move.to) + 1], Digits[RankOf(move.to) + 2]>>

\* MoveGen::moveToString: char('a' + file), char('1' + rank) for both
\* squares, then the promotion letter in lower case
moveToString(move) ==
    LET fromFile == FileOf(move.from)
        fromRank == RankOf(move.from)
        toFile == FileOf(move.to)
        toRank == RankOf(move.to)
        s == <<LowerCase[fromFile + 1], Digits[fromRank + 2],
               LowerCase[toFile + 1], Digits[toRank + 2]>>
    IN  IF move.promotion # "EMPTY"
        THEN CASE move.promotion = "QUEEN" -> s \o <<"q">>
               [] move.promotion = "ROOK" -> s \o <<"r">>
               [] move.promotion = "BISHOP" -> s \o <<"b">>
               [] move.promotion = "KNIGHT" -> s \o <<"n">>
               [] OTHER -> s
        ELSE s

\* ------------------------------------------------------------------------
\* Board::getFEN: the string as a sequence of characters
\* ------------------------------------------------------------------------
\* operator<< of an int
RECURSIVE Decimal(_)
Decimal(n) ==
    IF n < 0 THEN <<"-">> \o Decimal(-n)
    ELSE IF n < 10 THEN <<Digits[n + 1]>>
    ELSE Decimal(n \div 10) \o <<Digits[(n % 10) + 1]>>

\* the switch on sq.piece
PieceSymbol(piece) ==
    CASE piece = "PAWN" -> "P"
      [] piece = "KNIGHT" -> "N"
      [] piece = "BISHOP" -> "B"
      [] piece = "ROOK" -> "R"
      [] piece = "QUEEN" -> "Q"
      [] piece = "KING" -> "K"
      [] OTHER -> "?"

\* the symbol written for an occupied square: std::tolower for Black
SquareSymbol(sq) ==
    LET symbol == PieceSymbol(sq.piece)
    IN  IF sq.colour = "BLACK" /\ symbol # "?"
        THEN LowerCase[IndexIn(UpperCase, symbol)]
        ELSE symbol

\* the inner loop of the piece placement from file f on, with emptyCount
\* squares counted so far
RECURSIVE FenRank(_, _, _, _)
FenRank(b, r, f, emptyCount) ==
    IF f >= BOARD_SIZE
    THEN IF emptyCount > 0 THEN Decimal(emptyCount) ELSE << >>
    ELSE LET sq == b.squares[toIndex(f, r)]
         IN  IF sq.piece = "EMPTY" THEN FenRank(b, r, f + 1, emptyCount + 1)
             ELSE (IF emptyCount > 0 THEN Decimal(emptyCount) ELSE << >>)
                  \o <<SquareSymbol(sq)>> \o FenRank(b, r, f + 1, 0)

\* variant: the ranks written from rank 1 upwards
RECURSIVE FenPlacementFromFirstRank(_, _)
FenPlacementFromFirstRank(b, r) ==
    IF r < 0 THEN << >>
    ELSE FenRank(b, BOARD_SIZE - 1 - r, 0, 0) \o (IF r > 0 THEN <<"/">> ELSE << >>)
         \o FenPlacementFromFirstRank(b, r - 1)

\* the outer loop of the piece placement from rank r down
RECURSIVE FenPlacement(_, _)
FenPlacement(b, r) ==
    IF r < 0 THEN << >>
    ELSE FenRank(b, r, 0, 0) \o (IF r > 0 THEN <<"/">> ELSE << >>)
         \o FenPlacement(b, r - 1)

FenCastling(b) ==
    LET castling == (IF b.castlingRights[0] THEN <<"K">> ELSE << >>)
                    \o (IF b.castlingRights[1] THEN <<"Q">> ELSE << >>)
                    \o (IF b.castlingRights[2] THEN <<"k">> ELSE << >>)
                    \o (IF b.castlingRights[3] THEN <<"q">> ELSE << >>)
    IN  IF castling = << >> THEN <<"-">> ELSE castling

FenEnPassant(b) ==
    IF b.enPassantSquare = -1 THEN <<"-">>
    ELSE <<LowerCase[FileOf(b.enPassantSquare) + 1]>> \o Decimal(RankOf(b.enPassantSquare) + 1)

getFEN(b) ==
    FenPlacement(b, BOARD_SIZE - 1)
    \o <<" ">> \o <<IF b.sideToMove = "WHITE" THEN "w" ELSE "b">>
    \o <<" ">> \o FenCastling(b)
    \o <<" ">> \o FenEnPassant(b)
    \o <<" ">> \o Decimal(b.halfmoveClock) \o <<" ">> \o Decimal(b.fullmoveNumber)

\* ------------------------------------------------------------------------
\* Board::isGameOver
\* ------------------------------------------------------------------------
\* placeholder in the source: always false
isGameOver(b) == FALSE

\* ------------------------------------------------------------------------
\* Evaluate
\* ------------------------------------------------------------------------
PAWN_VALUE == 100

KNIGHT_VALUE == 320

BISHOP_VALUE == 330

ROOK_VALUE == 500

QUEEN_VALUE == 900

KING_VALUE == 0

\* the tables are indexed 0..63 in the source: table[idx] is Table[idx + 1]
pawnTable ==
    <<  0,  0,  0,  0,  0,  0,  0,  0,
       10, 10, 10, 10, 10, 10, 10, 10,
        5,  5,  8, 12, 12,  8,  5,  5,
        2,  2,  4, 10, 10,  4,  2,  2,
        1,  1,  2,  5,  5,  2,  1,  1,
        0,  0,  0,  0,  0,  0,  0,  0,
        0,  0,  0, -2, -2,  0,  0,  0,
        0,  0,  0,  0,  0,  0,  0,  0 >>

knightTable ==
    << -50,-40,-30,-30,-30,-30,-40,-50,
       -40,-20,  0,  0,  0,  0,-20,-40,
       -30,  0, 10, 15, 15, 10,  0,-30,
       -30,  5, 15, 20, 20, 15,  5,-30,
       -30,  0, 15, 20, 20, 15,  0,-30,
       -30,  5, 10, 15, 15, 10,  5,-30,
       -40,-20,  0,  5,  5,  0,-20,-40,
       -50,-40,-30,-30,-30,-30,-40,-50 >>

bishopTable ==
    << -20,-10,-10,-10,-10,-10,-10,-20,
       -10,  5,  0,  0,  0,  0,  5,-10,
       -10, 10, 10, 10, 10, 10, 10,-10,
       -10,  0, 10, 10, 10, 10,  0,-10,
       -10,  5,  5, 10, 10,  5,  5,-10,
       -10,  0,  5, 10, 10,  5,  0,-10,
       -10,  0,  0,  0,  0,  0,  0,-10,
       -20,-10,-10,-10,-10,-10,-10,-20 >>

rookTable ==
    <<  0,  0,  5, 10, 10,  5,  0,  0,
       -5,  0,  0,  0,  0,  0,  0, -5,
       -5,  0,  0,  0,  0,  0,  0, -5,
       -5,  0,  0,  0,  0,  0,  0, -5,
       -5,  0,  0,  0,  0,  0,  0, -5,
       -5,  0,  0,  0,  0,  0,  0, -5,
        5, 10, 10, 10, 10, 10, 10,  5,
        0,  0,  0,  0,  0,  0,  0,  0 >>

queenTable ==
    << -20,-10,-10, -5, -5,-10,-10,-20,
       -10,  0,  0,  0,  0,  0,  0,-10,
       -10,  0,  5,  5,  5,  5,  0,-10,
        -5,  0,  5,  5,  5,  5,  0, -5,
         0,  0,  5,  5,  5,  5,  0, -5,
       -10,  5,  5,  5,  5,  5,  0,-10,
       -10,  0,  5,  0,  0,  0,  0,-10,
       -20,-10,-10, -5, -5,-10,-10,-20 >>

kingTable ==
    << -30,-40,-40,-50,-50,-40,-40,-30,
       -30,-40,-40,-50,-50,-40,-40,-30,
       -30,-40,-40,-50,-50,-40,-40,-30,
       -30,-40,-40,-50,-50,-40,-40,-30,
       -20,-30,-30,-40,-40,-30,-30,-20,
       -10,-20,-20,-20,-20,-20,-20,-10,
        20, 20,  0,  0,  0,  0, 20, 20,
        20, 30, 10,  0,  0, 10, 30, 20 >>

getMaterialValue(piece) ==
    CASE piece = "PAWN" -> PAWN_VALUE
      [] piece = "KNIGHT" -> KNIGHT_VALUE
      [] piece = "BISHOP" -> BISHOP_VALUE
      [] piece = "ROOK" -> ROOK_VALUE
      [] piece = "QUEEN" -> QUEEN_VALUE
      [] piece = "KING" -> KING_VALUE
      [] OTHER -> 0

\* for Black the index keeps the rank and reverses the file
getPieceSquareValue(piece, square, colour) ==
    LET idx == IF colour = "WHITE" THEN square
               ELSE (square \div 8) * 8 + (7 - (square % 8))
    IN  CASE piece = "PAWN" -> pawnTable[idx + 1]
          [] piece = "KNIGHT" -> knightTable[idx + 1]
          [] piece = "BISHOP" -> bishopTable[idx + 1]
          [] piece = "ROOK" -> rookTable[idx + 1]
          [] piece = "QUEEN" -> queenTable[idx + 1]
          [] piece = "KING" -> kingTable[idx + 1]
          [] OTHER -> 0

evaluateCastling(b) ==
    (IF b.castlingRights[0] THEN 20 ELSE 0)
    + (IF b.castlingRights[1] THEN 20 ELSE 0)
    - (IF b.castlingRights[2] THEN 20 ELSE 0)
    - (IF b.castlingRights[3] THEN 20 ELSE 0)

\* pawns of one colour on one file
PawnsOnFile(b, file, colour) ==
    Cardinality({rank \in 0 .. BOARD_SIZE - 1 :
                    LET s == getSquare(b, toIndex(file, rank))
                    IN  s.piece = "PAWN" /\ s.colour = colour})

evaluatePawnStructure(b) ==
    LET FileScore(file) ==
            LET whitePawns == PawnsOnFile(b, file, "WHITE")
                blackPawns == PawnsOnFile(b, file, "BLACK")
            IN  (IF whitePawns > 1 THEN -10 * (whitePawns - 1) ELSE 0)
                + (IF blackPawns > 1 THEN 10 * (blackPawns - 1) ELSE 0)
        Total[file \in 0 .. BOARD_SIZE] ==
            IF file = BOARD_SIZE THEN 0 ELSE FileScore(file) + Total[file + 1]
    IN  Total[0]

\* the text of the dummy move
DummyMove == <<"a", "2", "a", "3">>

\* moves of the side to move minus the moves after makeMove("a2a3"); the
\* copy is left as it was when that call fails
evaluateMobility(b) ==
    LET whiteMoves == generateLegalMoves(b)
        boardCopy == makeMoveText(b, DummyMove).board
        blackMoves == generateLegalMoves(boardCopy)
    IN  Len(whiteMoves) - Len(blackMoves)

\* placeholder in the source: always 0
evaluateGameStatus(b) == 0

\* the loop body of Evaluate::score for one square
PieceScore(b, sq) ==
    LET piece == getSquare(b, sq)
        material == getMaterialValue(piece.piece)
        pst == getPieceSquareValue(piece.piece, sq, piece.colour)
    IN  IF piece.piece = "EMPTY" THEN 0
        ELSE IF piece.colour = "WHITE" THEN material + pst
        ELSE IF piece.colour = "BLACK" THEN -(material + pst)
        ELSE 0

\* Evaluate::score
score(b) ==
    LET Total[sq \in 0 .. NUM_SQUARES] ==
            IF sq = NUM_SQUARES THEN 0 ELSE PieceScore(b, sq) + Total[sq + 1]
    IN  Total[0]
        + evaluateCastling(b)
        + evaluatePawnStructure(b)
        + evaluateMobility(b)
        + evaluateGameStatus(b)

\* ------------------------------------------------------------------------
\* Search
\* ------------------------------------------------------------------------
\* std::numeric_limits<int>::min() and max()
INT_MIN == -2147483647 - 1

INT_MAX == 2147483647

Max(x, y) == IF x > y THEN x ELSE y

Min(x, y) == IF x < y THEN x ELSE y

\* the score orderMoves gives one move
OrderScore(b, move) ==
    LET target == getSquare(b, move.to)
    IN  (IF target.piece # "EMPTY"
         THEN getMaterialValue(target.piece) * 10
              - getMaterialValue(getSquare(b, move.from).piece)
         ELSE 0)
        + (IF move.promotion # "EMPTY" THEN 900 ELSE 0)
        + (IF move.isCastle THEN 50 ELSE 0)
        + (IF move.isEnPassant THEN 100 ELSE 0)

\* every Board::Move
Moves ==
    [from : SquareIdx, to : SquareIdx, promotion : Pieces,
     isCastle : BOOLEAN, isEnPassant : BOOLEAN]

\* move put into the moves already in descending order of score, behind
\* those of the same score
InsertByScore(b, done, move) ==
    LET ahead == Cardinality({j \in 1 .. Len(done) :
                    OrderScore(b, done[j]) >= OrderScore(b, move)})
    IN  SubSeq(done, 1, ahead) \o <<move>> \o SubSeq(done, ahead + 1, Len(done))

\* Search::orderMoves: descending by score; moves of equal score are kept in
\* the order they came in
orderMoves(b, moves) ==
    LET Sort[ms \in Seq(Moves), k \in Nat, done \in Seq(Moves)] ==
            IF k > Len(ms) THEN done
            ELSE Sort[ms, k + 1, InsertByScore(b, done, ms[k])]
    IN  Sort[moves, 1, << >>]

\* a std::vector back to front
Reverse(seq) == [i \in 1 .. Len(seq) |-> seq[Len(seq) + 1 - i]]

\* orders in which the moves of a node are tried: the one of orderMoves with
\* moves of equal score in the order they came in; the same with moves of
\* equal score the other way round (std::sort leaves their order open); the
\* order of the generator; ascending by score
Orders == {"orderMoves", "tiesReversed", "generated", "ascending"}

\* the moves of a node in one of these orders
Ordered(order, b, moves) ==
    CASE order = "orderMoves" -> orderMoves(b, moves)
      [] order = "tiesReversed" -> orderMoves(b, Reverse(moves))
      [] order = "generated" -> moves
      [] order = "ascending" -> Reverse(orderMoves(b, moves))

\* variant: without moves and not in check the static evaluation is returned
checkGameOverNoDraw(b, ply) ==
    LET moves == generateLegalMoves(b)
        opponent == IF b.sideToMove = "WHITE" THEN "BLACK" ELSE "WHITE"
        kingSq == findKingSquare(b, b.sideToMove)
    IN  IF Len(moves) = 0 /\ isSquareAttacked(b, kingSq, opponent)
        THEN -100000 + ply
        ELSE score(b)

\* Search::checkGameOver
checkGameOver(b, ply) ==
    LET moves == generateLegalMoves(b)
    IN  IF Len(moves) = 0
        THEN LET opponent == IF b.sideToMove = "WHITE" THEN "BLACK" ELSE "WHITE"
                 kingSq == findKingSquare(b, b.sideToMove)
             IN  IF isSquareAttacked(b, kingSq, opponent)
                 THEN -100000 + ply
                 ELSE 0
        ELSE score(b)

\* ------------------------------------------------------------------------
\* Bounds and inputs
\* ------------------------------------------------------------------------
\* moves played off the scripted line
MaxFree == 1

\* depths handed to Perft::run
ShallowDepths == 0 .. 2

DeepDepths == 3 .. 4

\* nesting levels of perftRecursive that are followed step by step
ExplicitLevels == 2

LineItalian ==
    << <<"e", "2", "e", "4">>,
       <<"e", "7", "e", "5">>,
       <<"g", "1", "f", "3">>,
       <<"b", "8", "c", "6">>,
       <<"f", "1", "c", "4">>,
       <<"f", "8", "c", "5">>,
       <<"e", "1", "g", "1">>,
       <<"g", "8", "f", "6">>,
       <<"d", "2", "d", "3">>,
       <<"e", "8", "g", "8">> >>

LineQueenside ==
    << <<"d", "2", "d", "4">>,
       <<"d", "7", "d", "5">>,
       <<"c", "1", "f", "4">>,
       <<"c", "8", "f", "5">>,
       <<"b", "1", "c", "3">>,
       <<"b", "8", "c", "6">>,
       <<"d", "1", "d", "2">>,
       <<"d", "8", "d", "7">>,
       <<"e", "1", "c", "1">>,
       <<"e", "8", "c", "8">> >>

LineEnPassant ==
    << <<"e", "2", "e", "4">>,
       <<"a", "7", "a", "6">>,
       <<"e", "4", "e", "5">>,
       <<"d", "7", "d", "5">>,
       <<"e", "5", "d", "6">>,
       <<"h", "7", "h", "5">>,
       <<"a", "2", "a", "3">>,
       <<"h", "5", "h", "4">>,
       <<"g", "2", "g", "4">>,
       <<"h", "4", "g", "3">> >>

LineBishopTakesRook ==
    << <<"b", "2", "b", "3">>,
       <<"g", "7", "g", "6">>,
       <<"c", "1", "b", "2">>,
       <<"a", "7", "a", "6">>,
       <<"b", "2", "h", "8">>,
       <<"g", "8", "f", "6">>,
       <<"a", "2", "a", "3">>,
       <<"f", "8", "g", "7">>,
       <<"a", "3", "a", "4">>,
       <<"e", "8", "g", "8">> >>

LinePromotion ==
    << <<"a", "2", "a", "4">>,
       <<"b", "7", "b", "5">>,
       <<"a", "4", "b", "5">>,
       <<"h", "7", "h", "6">>,
       <<"b", "5", "b", "6">>,
       <<"h", "6", "h", "5">>,
       <<"b", "6", "b", "7">>,
       <<"h", "5", "h", "4">>,
       <<"b", "7", "a", "8", "q">> >>

LineFoolsMate ==
    << <<"f", "2", "f", "3">>,
       <<"e", "7", "e", "5">>,
       <<"g", "2", "g", "4">>,
       <<"d", "8", "h", "4">> >>

LineScholarsMate ==
    << <<"e", "2", "e", "4">>,
       <<"e", "7", "e", "5">>,
       <<"d", "1", "h", "5">>,
       <<"b", "8", "c", "6">>,
       <<"f", "1", "c", "4">>,
       <<"g", "8", "f", "6">>,
       <<"h", "5", "f", "7">> >>

LineRookTakesRook ==
    << <<"h", "2", "h", "4">>,
       <<"g", "7", "g", "5">>,
       <<"h", "4", "g", "5">>,
       <<"h", "7", "h", "6">>,
       <<"a", "2", "a", "3">>,
       <<"h", "6", "g", "5">>,
       <<"h", "1", "h", "8">> >>

\* the fourth move leaves the mover's king attacked and the fifth takes it
LineKingCapture ==
    << <<"e", "2", "e", "4">>,
       <<"e", "7", "e", "5">>,
       <<"d", "1", "h", "5">>,
       <<"f", "7", "f", "6">>,
       <<"h", "5", "e", "8">> >>

\* a bishop takes the rook on h8, then Black castles towards h8
LineCastleWithoutRook ==
    << <<"b", "2", "b", "3">>,
       <<"g", "7", "g", "6">>,
       <<"c", "1", "b", "2">>,
       <<"f", "8", "h", "6">>,
       <<"b", "2", "h", "8">>,
       <<"g", "8", "f", "6">>,
       <<"a", "2", "a", "3">>,
       <<"e", "8", "g", "8">> >>

\* games entered move by move from the starting position
Lines ==
    << LineKingCapture, LineItalian, LineQueenside, LineEnPassant, LineBishopTakesRook, LinePromotion,
       LineFoolsMate, LineScholarsMate, LineRookTakesRook, LineCastleWithoutRook >>

\* texts typed at the "move" prompt
MoveTexts ==
    { <<"e", "2", "e", "4">>,
      <<"e", "7", "e", "5">>,
      <<"e", "1", "g", "1">>,
      <<"e", "8", "g", "8">>,
      <<"e", "1", "c", "1">>,
      <<"e", "8", "c", "8">>,
      <<"c", "1", "h", "8">>,
      <<"f", "8", "a", "1">>,
      <<"a", "1", "a", "8">>,
      <<"h", "8", "h", "1">>,
      <<"e", "4", "e", "2">>,
      <<"d", "7", "d", "4">>,
      <<"d", "4", "e", "3">>,
      <<"e", "1", "e", "1">>,
      <<"e", "2", "e", "1">>,
      <<"e", "1", "f", "2">>,
      <<"e", "7", "e", "8", "Q">>,
      <<"a", "7", "a", "8", "n">>,
      <<"e", "2">>,
      <<"i", "2", "e", "4">>,
      <<"e", "9", "e", "4">>,
      <<"e", "2", "e", "0">>,
      <<"a", "2", "z", "4">>,
      <<"a", "2", "a", "3", "x">>,
      <<"b", "1", "c", "3">>,
      <<"g", "8", "f", "6">>,
      <<"a", "7", "e", "3">>,
      << >>,
      <<"e", "2", "e">>,
      <<"E", "2", "e", "4">>,
      <<"e", "2", "E", "4">>,
      <<"e", "0", "e", "4">>,
      <<"e", "2", "e", "9">>,
      <<"e", "7", "e", "8", "r">>,
      <<"e", "7", "e", "8", "B">>,
      <<"e", "2", "e", "4", "k">> }

\* after the last move Black has no legal move and is not in check
LineStalemate ==
    << <<"e", "2", "e", "3">>,
       <<"a", "7", "a", "5">>,
       <<"d", "1", "h", "5">>,
       <<"a", "8", "a", "6">>,
       <<"h", "5", "a", "5">>,
       <<"h", "7", "h", "5">>,
       <<"h", "2", "h", "4">>,
       <<"a", "6", "h", "6">>,
       <<"a", "5", "c", "7">>,
       <<"f", "7", "f", "6">>,
       <<"c", "7", "d", "7">>,
       <<"e", "8", "f", "7">>,
       <<"d", "7", "b", "7">>,
       <<"d", "8", "d", "3">>,
       <<"b", "7", "b", "8">>,
       <<"d", "3", "h", "7">>,
       <<"b", "8", "c", "8">>,
       <<"f", "7", "g", "6">>,
       <<"c", "8", "e", "6">> >>

\* the game one move before its end
AllButLast(moves) == SubSeq(moves, 1, Len(moves) - 1)

\* White is in check and has two replies
LineCheck ==
    << <<"f", "2", "f", "3">>,
       <<"e", "7", "e", "5">>,
       <<"e", "1", "f", "2">>,
       <<"d", "8", "h", "4">> >>

\* UCI sessions: "position startpos moves ..." followed by "go depth n", or
\* by a call of Search::minimax with that depth
Game(moves, depths) == [moves |-> moves, depths |-> depths]

Games ==
    << Game(LineFoolsMate, {1, 2, 3, 4}),
       Game(LineScholarsMate, {1, 2, 3, 4}),
       Game(LineStalemate, {1, 2, 3, 4}),
       Game(AllButLast(LineStalemate), {1, 2}),
       Game(AllButLast(LineFoolsMate), {1}),
       Game(LineCheck, {1, 2}) >>

\* alpha and beta handed to Search::minimax
Windows == { <<INT_MIN, INT_MAX>>, <<-50, 50>> }

\* Move structs handed to makeMove(const Move&) directly: every flag
\* combination on a few from/to pairs
StructPairs ==
    { <<4, 6>>, <<4, 2>>, <<60, 62>>, <<60, 58>>, <<12, 28>>, <<52, 36>>,
      <<12, 20>>, <<28, 21>>, <<36, 43>>, <<35, 44>>, <<27, 20>>, <<7, 5>>, <<20, 12>>, <<60, 20>> }

StructMoves ==
    { Move(pr[1], pr[2], promo, castle, ep) :
        pr \in StructPairs, promo \in {"EMPTY", "QUEEN"}, castle \in BOOLEAN, ep \in BOOLEAN }

\* ------------------------------------------------------------------------
\* State
\* ------------------------------------------------------------------------
VARIABLES
    board,      \* the Board object
    prev,       \* the Board as it was before the last call
    op,         \* last call: "init", "makeMove", "makeMoveText"
    lastMove,   \* the Move of the last makeMove call
    lastText,   \* the text of the last makeMove(text) call
    lastOk,     \* what the last makeMove call returned
    line,       \* which scripted game is being entered
    scriptPos,  \* how many of its moves have been entered
    free,       \* how many calls were made off the script
    perft,      \* the Perft::run call: [pc, depth, stack, nodes]
    search      \* the Search call: findBestMove's locals or minimax's arguments and result

vars == <<board, prev, op, lastMove, lastText, lastOk, line, scriptPos, free, perft, search>>

PerftIdle == [pc |-> "idle", depth |-> 0, stack |-> << >>, nodes |-> 0]

\* no Search call made yet; bestMove and bestScore are findBestMove's locals
\* as it declares them. stack holds the active calls of minimax, innermost
\* last; alpha, beta, maximisingPlayer are the arguments of a minimax call
\* made on the position itself; cuts (not in the source) counts the loops
\* left by break with moves still to try, and given (not in the source) keeps
\* the position as it was when the call was made; order is the order in
\* which the moves of every node are tried.
SearchIdle ==
    [pc |-> "idle", order |-> "orderMoves", depth |-> 0, given |-> reset, moves |-> << >>, idx |-> 0,
     bestMove |-> NullMove, bestScore |-> INT_MIN, outScore |-> 0,
     alpha |-> 0, beta |-> 0, maximisingPlayer |-> FALSE,
     stack |-> << >>, cuts |-> 0]

InitBoard ==
    /\ board = reset
    /\ prev = reset
    /\ op = "init"
    /\ lastMove = NullMove
    /\ lastText = << >>
    /\ lastOk = TRUE

Init ==
    /\ InitBoard
    /\ line \in 1 .. Len(Lines)
    /\ scriptPos = 0
    /\ free = 0
    /\ perft = PerftIdle
    /\ search = SearchIdle

\* the call board.makeMove(move) and what it returned
CallMakeMove(move) ==
    LET r == makeMove(board, move)
    IN  /\ board' = r.board
        /\ prev' = board
        /\ op' = "makeMove"
        /\ lastMove' = move
        /\ lastText' = << >>
        /\ lastOk' = r.ok

\* the call board.makeMove(text) and what it returned
CallMakeMoveText(text) ==
    LET p == parseMove(board, text)
        r == makeMoveText(board, text)
    IN  /\ board' = r.board
        /\ prev' = board
        /\ op' = "makeMoveText"
        /\ lastMove' = p.move
        /\ lastText' = text
        /\ lastOk' = r.ok

\* the moves of a std::vector<Move> as a set
MovesIn(moves) == {moves[i] : i \in 1 .. Len(moves)}

\* ---- legal play: only moves returned by generateLegalMoves are applied ----
\* the next move of the scripted game, when the generator returns it
PlayLine ==
    /\ free = 0
    /\ scriptPos < Len(Lines[line])
    /\ LET p == parseMove(board, Lines[line][scriptPos + 1])
       IN  p.ok /\ p.move \in MovesIn(generateLegalMoves(board)) /\ CallMakeMove(p.move)
    /\ scriptPos' = scriptPos + 1
    /\ UNCHANGED <<line, free, perft, search>>

\* any move returned by generateLegalMoves
PlayLegal ==
    /\ free < MaxFree
    /\ \E move \in MovesIn(generateLegalMoves(board)) : CallMakeMove(move)
    /\ free' = free + 1
    /\ UNCHANGED <<line, scriptPos, perft, search>>

Next == PlayLine \/ PlayLegal

Spec == Init /\ [][Next]_vars

\* ---- front end: "move <text>" with no legality check, and direct calls ----
TypeLine ==
    /\ free = 0
    /\ scriptPos < Len(Lines[line])
    /\ CallMakeMoveText(Lines[line][scriptPos + 1])
    /\ scriptPos' = scriptPos + 1
    /\ UNCHANGED <<line, free, perft, search>>

TypeMove ==
    /\ free < MaxFree
    /\ \E text \in MoveTexts : CallMakeMoveText(text)
    /\ free' = free + 1
    /\ UNCHANGED <<line, scriptPos, perft, search>>

PassMove ==
    /\ free < MaxFree
    /\ \E move \in StructMoves : MoveInRange(board, move) /\ CallMakeMove(move)
    /\ free' = free + 1
    /\ UNCHANGED <<line, scriptPos, perft, search>>

NextFrontEnd == TypeLine \/ TypeMove \/ PassMove

SpecFrontEnd == Init /\ [][NextFrontEnd]_vars

\* ---- the command loop of main: "move <text>" and "reset" ----
\* the command "reset"
ResetCommand ==
    /\ op # "reset"
    /\ board' = reset
    /\ prev' = board
    /\ op' = "reset"
    /\ UNCHANGED <<lastMove, lastText, lastOk, line, scriptPos, free, perft, search>>

NextConsole == TypeLine \/ TypeMove \/ ResetCommand

SpecConsole == Init /\ [][NextConsole]_vars

\* ---- UCI: "position startpos moves ..." then the search ----
InitSearch ==
    /\ InitBoard
    /\ line \in 1 .. Len(Games)
    /\ scriptPos = 0
    /\ free = 0
    /\ perft = PerftIdle
    /\ search = SearchIdle

\* one round of the loop of UCI::applyMoves
ApplyMoves ==
    /\ search.pc = "idle"
    /\ scriptPos < Len(Games[line].moves)
    /\ CallMakeMoveText(Games[line].moves[scriptPos + 1])
    /\ scriptPos' = scriptPos + 1
    /\ UNCHANGED <<line, free, perft, search>>

\* variant: the comparison of the break test the other way round
CutoffInverted(alpha, beta) == alpha <= beta

\* the test "if (beta <= alpha) break" of both loops of minimax
Cutoff(alpha, beta) == beta <= alpha

\* one call of minimax: its arguments, where it is, and its locals; eval is
\* maxEval or minEval in the loop and the returned value at "return"; given
\* (not in the source) keeps the position as it was passed in
Call(b, depth, alpha, beta, maximisingPlayer) ==
    [b |-> b, given |-> b, depth |-> depth, alpha |-> alpha, beta |-> beta,
     maximisingPlayer |-> maximisingPlayer,
     pc |-> "enter", moves |-> << >>, idx |-> 0, eval |-> 0]

Callee == search.stack[Len(search.stack)]

Caller == search.stack[Len(search.stack) - 1]

\* variant: the move is made on the node's position itself
TryInPlace(b, move) ==
    LET r == makeMove(b, move)
    IN  [ok |-> r.ok, board |-> r.board, boardCopy |-> r.board]

\* "Board boardCopy = board; boardCopy.makeMove(move)": what makeMove
\* returned, the node's position and the copy after the two statements
TryOnCopy(b, move) ==
    LET r == makeMove(b, move)
    IN  [ok |-> r.ok, board |-> b, boardCopy |-> r.board]

\* variant: a root without moves is scored as minimax scores such a node
RootWithoutMovesGameOver(b, depth) == checkGameOver(b, depth)

\* outScore of findBestMove when the root has no legal move
RootWithoutMoves(b, depth) == score(b)

\* Search::findBestMove(board, depth, outScore) up to its loop
FindBestMoveEnter ==
    /\ search.pc = "idle"
    /\ scriptPos = Len(Games[line].moves)
    /\ \E depth \in Games[line].depths :
          LET moves == generateLegalMoves(board)
          IN  search' = IF Len(moves) = 0
                        THEN [search EXCEPT !.pc = "done", !.depth = depth,
                                            !.given = board,
                                            !.outScore = RootWithoutMoves(board, depth)]
                        ELSE [search EXCEPT !.pc = "loop", !.depth = depth,
                                            !.given = board,
                                            !.moves = Ordered(search.order, board, moves),
                                                !.idx = 1]
    /\ UNCHANGED <<board, prev, op, lastMove, lastText, lastOk, line, scriptPos, free, perft>>

\* the loop of findBestMove up to its call of minimax
FindBestMoveCall ==
    /\ search.pc = "loop"
    /\ search.idx <= Len(search.moves)
    /\ LET t == TryOnCopy(board, search.moves[search.idx])
       IN  /\ board' = t.board
           /\ search' = IF ~t.ok THEN [search EXCEPT !.idx = @ + 1]
                         ELSE [search EXCEPT !.pc = "called",
                                  !.stack = << Call(t.boardCopy, search.depth - 1,
                                                    INT_MIN, INT_MAX, FALSE) >>]
    /\ UNCHANGED <<prev, op, lastMove, lastText, lastOk, line, scriptPos, free, perft>>

\* the rest of that round, with the score minimax returned
FindBestMoveTake ==
    /\ search.pc = "called"
    /\ Len(search.stack) = 1
    /\ Callee.pc = "return"
    /\ search' = IF Callee.eval > search.bestScore
                 THEN [search EXCEPT !.pc = "loop", !.stack = << >>, !.idx = @ + 1,
                                     !.bestScore = Callee.eval,
                                     !.bestMove = search.moves[search.idx]]
                 ELSE [search EXCEPT !.pc = "loop", !.stack = << >>, !.idx = @ + 1]
    /\ UNCHANGED <<board, prev, op, lastMove, lastText, lastOk, line, scriptPos, free, perft>>

\* the end of findBestMove after its loop
FindBestMoveReturn ==
    /\ search.pc = "loop"
    /\ search.idx > Len(search.moves)
    /\ search' = [search EXCEPT !.pc = "done", !.outScore = search.bestScore]
    /\ UNCHANGED <<board, prev, op, lastMove, lastText, lastOk, line, scriptPos, free, perft>>

\* Search::minimax(board, depth, alpha, beta, maximisingPlayer) called on the
\* position itself, which is passed by reference: the first activation works
\* on the caller's object
CallMinimax ==
    /\ search.pc = "idle"
    /\ scriptPos = Len(Games[line].moves)
    /\ \E depth \in {0} \cup Games[line].depths, w \in Windows, maximisingPlayer \in BOOLEAN :
          search' = [search EXCEPT !.pc = "minimax", !.depth = depth,
                        !.given = board,
                        !.alpha = w[1], !.beta = w[2],
                        !.maximisingPlayer = maximisingPlayer,
                        !.stack = << Call(board, depth, w[1], w[2], maximisingPlayer) >>]
    /\ UNCHANGED <<board, prev, op, lastMove, lastText, lastOk, line, scriptPos, free, perft>>

\* minimax up to its loops: the leaf, the position without moves, the ordering
MinimaxEnter ==
    /\ search.stack # << >>
    /\ Callee.pc = "enter"
    /\ LET c == Callee
           moves == generateLegalMoves(c.b)
           top == Len(search.stack)
       IN  search' =
             IF c.depth = 0 \/ isGameOver(c.b)
             THEN [search EXCEPT !.stack[top].pc = "return", !.stack[top].eval = score(c.b)]
             ELSE IF Len(moves) = 0
             THEN [search EXCEPT !.stack[top].pc = "return",
                                 !.stack[top].eval = checkGameOver(c.b, c.depth)]
             ELSE [search EXCEPT !.stack[top].pc = "loop",
                                 !.stack[top].moves = Ordered(search.order, c.b, moves),
                                 !.stack[top].idx = 1,
                                 !.stack[top].eval =
                                      IF c.maximisingPlayer THEN INT_MIN ELSE INT_MAX]
    /\ UNCHANGED <<board, prev, op, lastMove, lastText, lastOk, line, scriptPos, free, perft>>

\* a round of either loop of minimax up to the recursive call
MinimaxCall ==
    /\ search.stack # << >>
    /\ Callee.pc = "loop"
    /\ Callee.idx <= Len(Callee.moves)
    /\ LET c == Callee
           t == TryOnCopy(c.b, c.moves[c.idx])
           top == Len(search.stack)
       IN  search' = IF ~t.ok THEN [search EXCEPT !.stack[top].idx = @ + 1,
                                                  !.stack[top].b = t.board]
                     ELSE [search EXCEPT
                              !.stack = Append([@ EXCEPT ![top].pc = "called",
                                                         ![top].b = t.board],
                                               Call(t.boardCopy, c.depth - 1, c.alpha, c.beta,
                                                    ~c.maximisingPlayer))]
    /\ UNCHANGED <<board, prev, op, lastMove, lastText, lastOk, line, scriptPos, free, perft>>

\* the rest of that round with the value the call returned: maxEval and
\* alpha, or minEval and beta, and the break
MinimaxTake ==
    /\ Len(search.stack) >= 2
    /\ Callee.pc = "return"
    /\ Caller.pc = "called"
    /\ LET c == Caller
           eval == Callee.eval
           newEval == IF c.maximisingPlayer THEN Max(c.eval, eval) ELSE Min(c.eval, eval)
           newAlpha == IF c.maximisingPlayer THEN Max(c.alpha, eval) ELSE c.alpha
           newBeta == IF c.maximisingPlayer THEN c.beta ELSE Min(c.beta, eval)
           left == [c EXCEPT !.eval = newEval, !.alpha = newAlpha, !.beta = newBeta]
           up == SubSeq(search.stack, 1, Len(search.stack) - 2)
       IN  search' =
             IF Cutoff(newAlpha, newBeta)
             THEN [search EXCEPT
                      !.stack = Append(up, [left EXCEPT !.pc = "return"]),
                      !.cuts = IF c.idx < Len(c.moves) THEN @ + 1 ELSE @]
             ELSE [search EXCEPT
                      !.stack = Append(up, [left EXCEPT !.pc = "loop", !.idx = @ + 1])]
    /\ UNCHANGED <<board, prev, op, lastMove, lastText, lastOk, line, scriptPos, free, perft>>

\* either loop of minimax ran to its end: return maxEval or minEval
MinimaxLoopEnd ==
    /\ search.stack # << >>
    /\ Callee.pc = "loop"
    /\ Callee.idx > Len(Callee.moves)
    /\ search' = [search EXCEPT !.stack[Len(search.stack)].pc = "return"]
    /\ UNCHANGED <<board, prev, op, lastMove, lastText, lastOk, line, scriptPos, free, perft>>

\* the minimax call made on the position returns
MinimaxReturn ==
    /\ search.pc = "minimax"
    /\ Len(search.stack) = 1
    /\ Callee.pc = "return"
    /\ board' = Callee.b
    /\ search' = [search EXCEPT !.pc = "returned", !.stack = << >>,
                                !.outScore = Callee.eval]
    /\ UNCHANGED <<prev, op, lastMove, lastText, lastOk, line, scriptPos, free, perft>>

NextSearch ==
    \/ ApplyMoves
    \/ FindBestMoveEnter
    \/ FindBestMoveCall
    \/ FindBestMoveTake
    \/ FindBestMoveReturn
    \/ CallMinimax
    \/ MinimaxEnter
    \/ MinimaxCall
    \/ MinimaxTake
    \/ MinimaxLoopEnd
    \/ MinimaxReturn

SpecSearch == InitSearch /\ [][NextSearch]_vars

\* ---- UCI: "go depth 0" beside the depths of the games ----
\* the number of nested minimax calls followed
MaxDescent == 8

\* UCI::handleGo for "go depth 0": depth = std::stoi("0"), then
\* Search::findBestMove(board, depth, score) up to its loop
HandleGoDepthZero ==
    /\ search.pc = "idle"
    /\ scriptPos = Len(Games[line].moves)
    /\ LET depth == 0
           moves == generateLegalMoves(board)
       IN  search' = IF Len(moves) = 0
                     THEN [search EXCEPT !.pc = "done", !.depth = depth,
                                         !.given = board,
                                         !.outScore = RootWithoutMoves(board, depth)]
                     ELSE [search EXCEPT !.pc = "loop", !.depth = depth,
                                         !.given = board,
                                         !.moves = Ordered(search.order, board, moves),
                                         !.idx = 1]
    /\ UNCHANGED <<board, prev, op, lastMove, lastText, lastOk, line, scriptPos, free, perft>>

\* the recursive call, followed down to MaxDescent nested calls
MinimaxCallBounded == Len(search.stack) < MaxDescent /\ MinimaxCall

NextGo ==
    \/ ApplyMoves
    \/ FindBestMoveEnter
    \/ HandleGoDepthZero
    \/ FindBestMoveCall
    \/ FindBestMoveTake
    \/ FindBestMoveReturn
    \/ MinimaxEnter
    \/ MinimaxCallBounded
    \/ MinimaxTake
    \/ MinimaxLoopEnd

SpecGo == InitSearch /\ [][NextGo]_vars

\* ---- the same with the moves of every node tried in any of Orders ----
InitSearchOrder ==
    /\ InitBoard
    /\ line \in 1 .. Len(Games)
    /\ scriptPos = 0
    /\ free = 0
    /\ perft = PerftIdle
    /\ search \in {[SearchIdle EXCEPT !.order = order] : order \in Orders}

SpecSearchOrder == InitSearchOrder /\ [][NextSearch]_vars

\* ---- Perft::run(board, depth) from the starting position ----
\* perft.stack holds the active calls of perftRecursive, innermost last:
\* [b, depth, pc, moves, idx]; calls nested deeper than ExplicitLevels are
\* evaluated in one step by the operator perftRecursive
Frame(b, depth) == [b |-> b, depth |-> depth, pc |-> "enter", moves |-> << >>, idx |-> 0]

PerftCall(d) == [pc |-> "run", depth |-> d, stack |-> << Frame(reset, d) >>, nodes |-> 0]

InitPerftWith(depths) ==
    /\ InitBoard
    /\ line = 1
    /\ scriptPos = 0
    /\ free = 0
    /\ \E d \in depths : perft = PerftCall(d)
    /\ search = SearchIdle

Top == perft.stack[Len(perft.stack)]

Pop(stack) == SubSeq(stack, 1, Len(stack) - 1)

ReplaceTop(stack, frame) == [stack EXCEPT ![Len(stack)] = frame]

\* pc after the stack has become st
PcFor(st) == IF st = << >> THEN "done" ELSE "run"

\* entry of perftRecursive: count a leaf and return, or generate the moves
PerftEnter ==
    /\ perft.pc = "run"
    /\ Top.pc = "enter"
    /\ perft' = IF Top.depth = 0
                THEN [perft EXCEPT !.nodes = perft.nodes + 1,
                                   !.stack = Pop(perft.stack),
                                   !.pc = PcFor(Pop(perft.stack))]
                ELSE [perft EXCEPT !.stack = ReplaceTop(perft.stack,
                          [Top EXCEPT !.pc = "loop", !.moves = generateLegalMoves(Top.b), !.idx = 1])]
    /\ UNCHANGED <<board, prev, op, lastMove, lastText, lastOk, line, scriptPos, free, search>>

\* one iteration of the for loop: copy the board, makeMove, recurse
PerftIterate ==
    /\ perft.pc = "run"
    /\ Top.pc = "loop"
    /\ Top.idx <= Len(Top.moves)
    /\ LET r == makeMove(Top.b, Top.moves[Top.idx])
           advanced == ReplaceTop(perft.stack, [Top EXCEPT !.idx = Top.idx + 1])
       IN  perft' = IF ~r.ok THEN [perft EXCEPT !.stack = advanced]
                    ELSE IF Len(perft.stack) < ExplicitLevels
                    THEN [perft EXCEPT !.stack = Append(advanced, Frame(r.board, Top.depth - 1))]
                    ELSE [perft EXCEPT !.stack = advanced,
                                       !.nodes = perft.nodes + perftRecursive(r.board, Top.depth - 1)]
    /\ UNCHANGED <<board, prev, op, lastMove, lastText, lastOk, line, scriptPos, free, search>>

\* the loop is over: the call returns
PerftReturn ==
    /\ perft.pc = "run"
    /\ Top.pc = "loop"
    /\ Top.idx > Len(Top.moves)
    /\ perft' = [perft EXCEPT !.stack = Pop(perft.stack), !.pc = PcFor(Pop(perft.stack))]
    /\ UNCHANGED <<board, prev, op, lastMove, lastText, lastOk, line, scriptPos, free, search>>

NextPerft == PerftEnter \/ PerftIterate \/ PerftReturn

SpecPerft == InitPerftWith(ShallowDepths) /\ [][NextPerft]_vars

SpecPerftDeep == InitPerftWith(DeepDepths) /\ [][NextPerft]_vars

\* ---- Perft::run and Perft::runDetailed called on the position ----
\* Perft::Results as it is declared: every count starts at 0
Results == [nodes |-> 0, captures |-> 0, promotions |-> 0, castles |-> 0,
            enPassants |-> 0, checks |-> 0]

\* the counts of two parts of a loop added up
AddResults(x, y) ==
    [nodes |-> x.nodes + y.nodes, captures |-> x.captures + y.captures,
     promotions |-> x.promotions + y.promotions, castles |-> x.castles + y.castles,
     enPassants |-> x.enPassants + y.enPassants, checks |-> x.checks + y.checks]

\* Perft::isCheck on the board after the move: the king looked up is the one
\* of the colour that is not to move, the attacker is the colour to move
isCheck(b, move) ==
    LET opponent == IF b.sideToMove = "WHITE" THEN "BLACK" ELSE "WHITE"
        kingSq == findKingSquare(b, opponent)
    IN  IF kingSq = -1 THEN FALSE
        ELSE isSquareAttacked(b, kingSq, b.sideToMove)

\* what one iteration of the loop adds to the counts when depth is 1, before
\* the move is applied for the recursion
MoveTypeStats(b, move) ==
    LET dest == getSquare(b, move.to)
        temp == makeMove(b, move)
    IN  [nodes |-> 0,
         captures |-> IF (dest.piece # "EMPTY" /\ dest.colour # b.sideToMove) \/ move.isEnPassant
                      THEN 1 ELSE 0,
         promotions |-> IF move.promotion # "EMPTY" THEN 1 ELSE 0,
         castles |-> IF move.isCastle THEN 1 ELSE 0,
         enPassants |-> IF move.isEnPassant THEN 1 ELSE 0,
         checks |-> IF temp.ok /\ isCheck(temp.board, move) THEN 1 ELSE 0]

RECURSIVE perftRecursiveDetailedCountingCalls(_, _)
\* variant: every call is counted as a node, not only the calls with depth 0
perftRecursiveDetailedCountingCalls(b, depth) ==
    IF depth = 0 THEN [Results EXCEPT !.nodes = 1]
    ELSE LET moves == generateLegalMoves(b)
             n == Len(moves)
             Part[lo \in 1 .. n, hi \in 1 .. n] ==
                 IF lo = hi
                 THEN (LET r == makeMove(b, moves[lo])
                           stats == IF depth = 1 THEN MoveTypeStats(b, moves[lo]) ELSE Results
                       IN  IF ~r.ok THEN stats
                           ELSE AddResults(stats, perftRecursiveDetailedCountingCalls(r.board, depth - 1)))
                 ELSE AddResults(Part[lo, (lo + hi) \div 2], Part[((lo + hi) \div 2) + 1, hi])
         IN  AddResults([Results EXCEPT !.nodes = 1], IF n = 0 THEN Results ELSE Part[1, n])

RECURSIVE perftRecursiveDetailed(_, _)
\* the counts added to results below this call; Part[lo, hi] is what
\* iterations lo .. hi of the for loop add
perftRecursiveDetailed(b, depth) ==
    IF depth = 0 THEN [Results EXCEPT !.nodes = 1]
    ELSE LET moves == generateLegalMoves(b)
             n == Len(moves)
             Part[lo \in 1 .. n, hi \in 1 .. n] ==
                 IF lo = hi
                 THEN (LET r == makeMove(b, moves[lo])
                           stats == IF depth = 1 THEN MoveTypeStats(b, moves[lo]) ELSE Results
                       IN  IF ~r.ok THEN stats
                           ELSE AddResults(stats, perftRecursiveDetailed(r.board, depth - 1)))
                 ELSE AddResults(Part[lo, (lo + hi) \div 2], Part[((lo + hi) \div 2) + 1, hi])
         IN  IF n = 0 THEN Results ELSE Part[1, n]

\* Perft::run: the count made on a copy of the board
run(b, depth) ==
    LET boardCopy == b
    IN  perftRecursive(boardCopy, depth)

\* Perft::runDetailed: the counts made on a copy of the board
runDetailed(b, depth) ==
    LET boardCopy == b
    IN  perftRecursiveDetailed(boardCopy, depth)

\* the deepest count made, and the number of plies into a scripted game up
\* to which the counts deeper than one ply are made
MaxCountDepth == 2
DeepCountPlies == 1

\* the depths counted in the position of the current state
CountDepths ==
    {depth \in 0 .. MaxCountDepth :
        depth <= 1 \/ (free = 0 /\ scriptPos <= DeepCountPlies)}

\* a count returned: call names the function, results holds what it returned
\* (Perft::run returns the nodes alone)
Counted(call, depth, results) ==
    [pc |-> "returned", call |-> call, depth |-> depth, stack |-> << >>,
     nodes |-> results.nodes, results |-> results]

\* the call Perft::run(board, depth); the board is passed by const reference
CallRun ==
    /\ perft.pc = "idle"
    /\ \E depth \in CountDepths :
          perft' = Counted("run", depth, [Results EXCEPT !.nodes = run(board, depth)])
    /\ prev' = board
    /\ op' = "perft"
    /\ UNCHANGED <<board, lastMove, lastText, lastOk, line, scriptPos, free, search>>

\* the call Perft::runDetailed(board, depth)
CallRunDetailed ==
    /\ perft.pc = "idle"
    /\ \E depth \in CountDepths :
          perft' = Counted("runDetailed", depth, runDetailed(board, depth))
    /\ prev' = board
    /\ op' = "perft"
    /\ UNCHANGED <<board, lastMove, lastText, lastOk, line, scriptPos, free, search>>

\* legal play up to the count
PlayBeforeCount == perft.pc = "idle" /\ Next

NextCount == PlayBeforeCount \/ CallRun \/ CallRunDetailed

SpecCount == Init /\ [][NextCount]_vars

\* ------------------------------------------------------------------------
\* Properties
\* ------------------------------------------------------------------------
PerftDone(d) == perft.pc = "done" /\ perft.depth = d

\* C1: Perft::run from the starting position returns 20 nodes at depth 1
\* and 400 nodes at depth 2.
C1_PerftDepth1And2 ==
    /\ PerftDone(1) => perft.nodes = 20
    /\ PerftDone(2) => perft.nodes = 400

C1_Witness == PerftDone(2) /\ perft.nodes > 0

\* C2: Perft::run from the starting position returns 8902 nodes at depth 3
\* and 197281 nodes at depth 4.
C2_PerftDepth3And4 ==
    /\ PerftDone(3) => perft.nodes = 8902
    /\ PerftDone(4) => perft.nodes = 197281

C2_Witness == PerftDone(4) /\ perft.nodes > 8902

\* a makeMove call has just returned true
Applied == op # "init" /\ lastOk

\* the side that made the last move
Mover == prev.sideToMove

\* C3: after a move returned by generateLegalMoves has been applied, the
\* mover's king is on the board and not attacked by the opponent, and no
\* pseudo-legal move of the opponent has the mover's king square as its
\* destination.
C3_LegalityClosure ==
    Applied =>
        LET kingSq == findKingSquare(board, Mover)
        IN  /\ kingSq # -1
            /\ ~isSquareAttacked(board, kingSq, Other(Mover))
            /\ \A m \in MovesIn(generatePseudoLegalMoves(board)) : m.to # kingSq

\* a legal move was applied in a position where the filter had rejected
\* some pseudo-legal move
C3_Witness ==
    /\ Applied
    /\ Len(generateLegalMoves(prev)) < Len(generatePseudoLegalMoves(prev))

\* C4: no makeMove call, successful or failed, of any move kind, turns a
\* cleared castling right back on.
C4_RightsNeverRestored ==
    [][\A i \in 0 .. 3 : board'.castlingRights[i] => board.castlingRights[i]]_vars

\* a call was made on a board that had already lost a right
C4_Witness ==
    /\ op # "init"
    /\ \E i \in 0 .. 3 : ~prev.castlingRights[i] /\ ~board.castlingRights[i]

\* a standard move of a pawn to the square two ranks away on its file
TwoSquarePawnAdvance(b, move) ==
    /\ ~move.isCastle
    /\ ~move.isEnPassant
    /\ b.squares[move.from].piece = "PAWN"
    /\ FileOf(move.to) = FileOf(move.from)
    /\ Abs(RankOf(move.to) - RankOf(move.from)) = 2

\* the square between from and to on that file
PassedOver(move) == toIndex(FileOf(move.from), (RankOf(move.from) + RankOf(move.to)) \div 2)

C6_FailureMutatesNothing == (op # "init" /\ ~lastOk) => board = prev

\* a castle whose source square is fine was refused while a target was set
C6_Witness ==
    /\ op # "init"
    /\ ~lastOk
    /\ lastMove.isCastle
    /\ SourceOk(prev, lastMove)
    /\ prev.enPassantSquare # -1

\* the last move went through the standard branch of makeMove
StandardApplied == Applied /\ ~lastMove.isCastle /\ ~lastMove.isEnPassant

\* C7: after a successfully applied standard move the half-move clock is 0
\* if the move captured a piece or moved a pawn, and one more than before
\* otherwise.
C7_HalfmoveClockRule ==
    StandardApplied =>
        board.halfmoveClock =
            (IF prev.squares[lastMove.to].piece # "EMPTY"
                \/ prev.squares[lastMove.from].piece = "PAWN"
             THEN 0
             ELSE prev.halfmoveClock + 1)

\* the castling right that belongs to a rook home square, -1 for other squares
RightOfCorner(sq) ==
    CASE sq = toIndex(7, 0) -> 0
      [] sq = toIndex(0, 0) -> 1
      [] sq = toIndex(7, 7) -> 2
      [] sq = toIndex(0, 7) -> 3
      [] OTHER -> -1

\* rook home squares of a colour
RookHomes(colour) ==
    IF colour = "WHITE" THEN {toIndex(0, 0), toIndex(7, 0)} ELSE {toIndex(0, 7), toIndex(7, 7)}

\* C8: after a successfully applied move that lands on a rook home square
\* of the opponent, the opponent's right for that corner is cleared,
\* whatever piece moved.
C8_LandingOnRookHomeRevokes ==
    (Applied /\ lastMove.to \in RookHomes(Other(Mover))) =>
        ~board.castlingRights[RightOfCorner(lastMove.to)]

\* C9: after a successfully applied move (standard, castle or en passant)
\* from e1 / e8 both rights of that colour are cleared, and after one from
\* a1, h1, a8 or h8 the right of that corner is cleared.
C9_LeavingHomeRevokes ==
    Applied =>
        /\ lastMove.from = toIndex(4, 0) => (~board.castlingRights[0] /\ ~board.castlingRights[1])
        /\ lastMove.from = toIndex(4, 7) => (~board.castlingRights[2] /\ ~board.castlingRights[3])
        /\ RightOfCorner(lastMove.from) # -1 => ~board.castlingRights[RightOfCorner(lastMove.from)]

\* a castle was applied on a board that still had both rights of the mover
C9_Witness ==
    /\ Applied
    /\ lastMove.isCastle
    /\ lastMove.from \in {toIndex(4, 0), toIndex(4, 7)}
    /\ \E i \in 0 .. 3 : prev.castlingRights[i] /\ ~board.castlingRights[i]

KingsOf(b, colour) == {sq \in SquareIdx : IsKingOf(b, sq, colour)}

\* C10: every position reached by moves returned by generateLegalMoves holds
\* exactly one White king and exactly one Black king, so findKingSquare
\* returns a square for both colours.
C10_OneKingEach ==
    /\ Cardinality(KingsOf(board, "WHITE")) = 1
    /\ Cardinality(KingsOf(board, "BLACK")) = 1
    /\ findKingSquare(board, "WHITE") # -1
    /\ findKingSquare(board, "BLACK") # -1

\* a position in which the side to move has no legal move and is in check
C10_Witness ==
    /\ Applied
    /\ generateLegalMoves(board) = << >>
    /\ isSquareAttacked(board, findKingSquare(board, board.sideToMove), Mover)

\* C11: every successful makeMove, whichever of its three branches applied
\* the move, hands the move to the other colour; fullmoveNumber is one more
\* than before when Black made the move and the same as before when White
\* made it.
C11_SideFlipsFullmoveAfterBlack ==
    Applied =>
        /\ Mover \in {"WHITE", "BLACK"}
        /\ board.sideToMove = Other(Mover)
        /\ board.sideToMove # Mover
        /\ Mover = "BLACK" => board.fullmoveNumber = prev.fullmoveNumber + 1
        /\ Mover = "WHITE" => board.fullmoveNumber = prev.fullmoveNumber

\* Black castled or captured en passant, completing a full move
C11_Witness ==
    /\ Applied
    /\ Mover = "BLACK"
    /\ lastMove.isCastle \/ lastMove.isEnPassant
    /\ prev.fullmoveNumber >= 5
    /\ board.fullmoveNumber = prev.fullmoveNumber + 1

\* ---- search ----
\* the largest and the smallest of a set of scores
Largest(scores) == CHOOSE v \in scores : \A w \in scores : w <= v

Smallest(scores) == CHOOSE v \in scores : \A w \in scores : v <= w

RECURSIVE FullMinimax(_, _, _)

\* minimax without alpha, beta and break: every move of every node is
\* searched; leaves and positions without moves are scored as minimax
\* scores them
FullMinimax(b, depth, maximisingPlayer) ==
    IF depth = 0 \/ isGameOver(b) THEN score(b)
    ELSE LET moves == generateLegalMoves(b)
             evals == {FullMinimax(makeMove(b, moves[i]).board, depth - 1, ~maximisingPlayer) :
                          i \in 1 .. Len(moves)}
         IN  IF Len(moves) = 0 THEN checkGameOver(b, depth)
             ELSE IF maximisingPlayer THEN Largest(evals) ELSE Smallest(evals)

\* a minimax call on the position has returned
Returned == search.pc = "returned"

\* findBestMove has returned
Done == search.pc = "done"

FullWindow == search.alpha = INT_MIN /\ search.beta = INT_MAX

\* C12: for depth >= 1, the score minimax returns when called with alpha =
\* INT_MIN and beta = INT_MAX equals the score of the search without pruning
\* over the same tree, and so does the score findBestMove reports from a
\* position with legal moves (its root takes the largest score of its moves).
C12_AlphaBetaEqualsFullMinimax ==
    /\ (Returned /\ FullWindow /\ search.depth >= 1) =>
          search.outScore = FullMinimax(board, search.depth, search.maximisingPlayer)
    /\ (Done /\ search.moves # << >>) =>
          search.outScore = FullMinimax(board, search.depth, TRUE)

\* a depth 2 call with the full window returned after leaving loops by break
\* with moves still untried
C12_Witness ==
    /\ Returned
    /\ FullWindow
    /\ search.depth = 2
    /\ search.cuts > 0

\* the score of the position after a root move in the convention of
\* Evaluate::score: positive favours White, so White to move takes the
\* largest and Black to move the smallest, to the depth left
MinimaxValue(b, depth) == FullMinimax(b, depth, b.sideToMove = "WHITE")

RootScore(move) == MinimaxValue(makeMove(board, move).board, search.depth - 1)

RootScores == {RootScore(search.moves[i]) : i \in 1 .. Len(search.moves)}

\* C13: the move findBestMove returns has the largest score of all root
\* moves when White is to move and the smallest when Black is to move.
C13_BestMoveForSideToMove ==
    (Done /\ search.moves # << >>) =>
        RootScore(search.bestMove) =
            IF board.sideToMove = "WHITE" THEN Largest(RootScores) ELSE Smallest(RootScores)

\* the side to move has no legal move
NoLegalMoves(b) == Len(generateLegalMoves(b)) = 0

\* the king of the side to move is attacked by the other side
InCheck(b) == isSquareAttacked(b, findKingSquare(b, b.sideToMove), Other(b.sideToMove))

Checkmate(b) == NoLegalMoves(b) /\ InCheck(b)

Stalemate(b) == NoLegalMoves(b) /\ ~InCheck(b)

\* the fixed magnitude of a mate score
MATE == 100000

\* C14: minimax called with depth >= 1 on a checkmate returns a score within
\* the depth of -100000 when White is the side mated and within the depth of
\* +100000 when Black is the side mated.
C14_MateScoreSign ==
    (Returned /\ search.depth >= 1 /\ Checkmate(board)) =>
        IF board.sideToMove = "WHITE"
        THEN search.outScore < 0 /\ Abs(search.outScore + MATE) <= search.depth
        ELSE search.outScore > 0 /\ Abs(search.outScore - MATE) <= search.depth

\* C15: of two searches of the same checkmate, the one with more remaining
\* depth returns the score that is strictly better for the side giving
\* mate: smaller when White is mated, larger when Black is mated.
C15_FasterMatePreferred ==
    (Returned /\ search.depth >= 2 /\ Checkmate(board)) =>
        LET slower == FullMinimax(board, search.depth - 1, search.maximisingPlayer)
        IN  IF board.sideToMove = "WHITE"
            THEN search.outScore < slower
            ELSE search.outScore > slower

\* C16: minimax called with depth >= 1 on a position in which the side to
\* move has no legal move and is not in check returns exactly 0, whatever
\* the material and whatever alpha and beta.
C16_StalemateScoresZero ==
    (Returned /\ search.depth >= 1 /\ Stalemate(board)) => search.outScore = 0

\* such a call returned, made with a window that does not contain the
\* static evaluation of the position
C16_Witness ==
    /\ Returned
    /\ search.depth >= 1
    /\ Stalemate(board)
    /\ ~FullWindow
    /\ score(board) > search.beta
    /\ search.outScore = 0

\* C17: a position in which the side to move has no legal move and is not
\* in check scores exactly 0 when minimax searches it at depth 0.
C17_StalemateScoresZeroAtDepthZero ==
    (Returned /\ search.depth = 0 /\ Stalemate(board)) => search.outScore = 0

\* the moves of the scripted game entered so far were all applied
Entered(game) == Lines[line] = game /\ free = 0 /\ scriptPos >= 1

\* C18: each of f2f3, e7e5, g2g4, d8h4 entered from the starting position is
\* applied, and after the last one generateLegalMoves returns no move for
\* White and isSquareAttacked reports White's king square attacked by Black.
C18_FoolsMateIsCheckmate ==
    Entered(LineFoolsMate) =>
        /\ lastOk
        /\ scriptPos = Len(LineFoolsMate) =>
              /\ board.sideToMove = "WHITE"
              /\ generateLegalMoves(board) = << >>
              /\ findKingSquare(board, "WHITE") = toIndex(4, 0)
              /\ isSquareAttacked(board, findKingSquare(board, "WHITE"), "BLACK")

\* the four moves have been entered
C18_Witness ==
    /\ Entered(LineFoolsMate)
    /\ scriptPos = Len(LineFoolsMate)
    /\ lastOk
    /\ lastText = <<"d", "8", "h", "4">>
    /\ getSquare(board, toIndex(7, 3)) = Sq("QUEEN", "BLACK")

\* C19: findBestMove with depth 1 from the position after f2f3 e7e5 g2g4 d8h4
\* reports the checkmate score: magnitude 100000 adjusted by the remaining
\* depth, not the static evaluation of the position.
C19_FoolsMateSearchReportsMate ==
    (Done /\ Games[line].moves = LineFoolsMate /\ search.depth = 1) =>
        Abs(Abs(search.outScore) - MATE) <= search.depth

\* C20: when the root has no legal move findBestMove returns the null move
\* (from 0, to 0, no promotion, no flags) and reports exactly Evaluate::score
\* of the root, at every depth.
C20_NoMovesNullMoveAndStaticScore ==
    (Done /\ NoLegalMoves(board)) =>
        /\ search.bestMove = Move(0, 0, "EMPTY", FALSE, FALSE)
        /\ search.outScore = score(board)

\* findBestMove returned from a checkmate searched at depth 4, where the
\* static evaluation is no mate score
C20_Witness ==
    /\ Done
    /\ Checkmate(board)
    /\ search.depth = 4
    /\ search.outScore = score(board)
    /\ Abs(search.outScore) < MATE - search.depth

\* C21: Search leaves the position it is given as it was: from the call on,
\* and after findBestMove or minimax has returned, the position equals the
\* one passed in field for field, and in every active call of minimax the
\* position each move is tried from equals the one the call was given.
C21_SearchLeavesPositionAlone ==
    /\ search.pc \in {"loop", "called", "done", "returned"} => board = search.given
    /\ \A i \in 1 .. Len(search.stack) : search.stack[i].b = search.stack[i].given
    /\ (search.pc = "minimax" /\ search.stack # << >>) => search.stack[1].given = search.given

\* findBestMove returned after trying several root moves two plies deep
C21_Witness ==
    /\ Done
    /\ search.depth = 2
    /\ search.idx > 2
    /\ search.bestMove \in MovesIn(search.moves)
    /\ board = search.given
    /\ board # reset

\* C22: for a fixed position and depth the score findBestMove reports, and
\* the score minimax returns with the full window, is one and the same
\* whatever the order in which the moves of each node are tried: it is the
\* score of the search that looks at every move of every node, a maximum or
\* minimum over the set of moves.
C22_ScoreIndependentOfOrder ==
    \A order \in Orders :
        search.order = order =>
            /\ (Returned /\ FullWindow) =>
                  search.outScore = FullMinimax(search.given, search.depth, search.maximisingPlayer)
            /\ Done =>
                  search.outScore = IF search.moves = << >> THEN score(search.given)
                                    ELSE FullMinimax(search.given, search.depth, TRUE)

\* a depth 2 call returned after trying the moves in ascending order of
\* score, which left loops by break
C22_Witness ==
    /\ Returned
    /\ FullWindow
    /\ search.depth = 2
    /\ search.order = "ascending"
    /\ search.cuts > 0
    /\ Ordered(search.order, board, generateLegalMoves(board)) # orderMoves(board, generateLegalMoves(board))

\* the standard starting position in Forsyth-Edwards notation
StartFEN ==
    << "r", "n", "b", "q", "k", "b", "n", "r", "/", "p", "p", "p", "p", "p", "p", "p",
       "p", "/", "8", "/", "8", "/", "8", "/", "8", "/", "P", "P", "P", "P", "P", "P",
       "P", "P", "/", "R", "N", "B", "Q", "K", "B", "N", "R", " ", "w", " ", "K", "Q",
       "k", "q", " ", "-", " ", "0", " ", "1" >>

\* C23: for a freshly constructed Board, and after reset() following any
\* sequence of moves, getFEN() returns exactly
\* rnbqkbnr/pppppppp/8/8/8/8/PPPPPPPP/RNBQKBNR w KQkq - 0 1.
C23_FreshBoardFEN == op \in {"init", "reset"} => getFEN(board) = StartFEN

\* reset() was called with Black to move, an en-passant target set, castling
\* rights lost and the fullmove number above 1
C23_Witness ==
    /\ op = "reset"
    /\ prev.sideToMove = "BLACK"
    /\ prev.enPassantSquare # -1
    /\ ~prev.castlingRights[0]
    /\ prev.fullmoveNumber > 1
    /\ getFEN(prev) # StartFEN
    /\ getFEN(board) = StartFEN

FileLetters == {"a", "b", "c", "d", "e", "f", "g", "h"}

RankDigits == {"1", "2", "3", "4", "5", "6", "7", "8"}

\* the square written as a file letter and a rank digit
SquareOf(fileLetter, rankDigit) ==
    (IndexIn(Digits, rankDigit) - 2) * 8 + (IndexIn(LowerCase, fileLetter) - 1)

\* the piece a promotion letter stands for, in either case
PromotionLetters ==
    [q |-> "QUEEN", Q |-> "QUEEN", r |-> "ROOK", R |-> "ROOK",
     b |-> "BISHOP", B |-> "BISHOP", n |-> "KNIGHT", N |-> "KNIGHT"]

\* C26: makeMove(text) returns false and changes nothing for every text
\* shorter than 4 characters and for every text with a file letter outside
\* a-h or a rank digit outside 1-8; for well-formed coordinates the move has
\* from = rank * 8 + file and to = rank * 8 + file, and a 5th character q, r,
\* b or n in either case sets the promotion piece.
C26_TextMoveParsing ==
    op = "makeMoveText" =>
        LET text == lastText
            coordinates == /\ Len(text) >= 4
                           /\ {text[1], text[3]} \subseteq FileLetters
                           /\ {text[2], text[4]} \subseteq RankDigits
        IN  /\ ~coordinates => (~lastOk /\ board = prev)
            /\ coordinates =>
                  /\ lastMove.from = SquareOf(text[1], text[2])
                  /\ lastMove.to = SquareOf(text[3], text[4])
                  /\ (Len(text) >= 5 /\ text[5] \in DOMAIN PromotionLetters) =>
                        lastMove.promotion = PromotionLetters[text[5]]

\* a text with a capital promotion letter was parsed and the move applied
C26_Witness ==
    /\ op = "makeMoveText"
    /\ lastText = <<"e", "7", "e", "8", "Q">>
    /\ lastMove = Move(52, 60, "QUEEN", FALSE, FALSE)
    /\ lastOk
    /\ board # prev

\* the wings: the castling right of the side to move, the file of the rook
\* home square, and the step of the king along the rank
Wings == { [right |-> 0, rookFile |-> 7, step |-> 1], [right |-> 1, rookFile |-> 0, step |-> -1] }

HomeRank(colour) == IF colour = "WHITE" THEN 0 ELSE 7

\* the castling right of the side to move towards the wing
RightOf(b, wing) == b.castlingRights[wing.right + (IF b.sideToMove = "WHITE" THEN 0 ELSE 2)]

\* the squares strictly between the king home square and the rook home square
Between(b, wing) ==
    {toIndex(f, HomeRank(b.sideToMove)) :
        f \in {g \in 0 .. 7 : (g - 4) * wing.step > 0 /\ (wing.rookFile - g) * wing.step > 0}}

\* the king's current square, the square it passes over and its destination
KingPath(b, wing) ==
    {findKingSquare(b, b.sideToMove),
     toIndex(4 + wing.step, HomeRank(b.sideToMove)),
     toIndex(4 + 2 * wing.step, HomeRank(b.sideToMove))}

MayCastle(b, wing) ==
    /\ RightOf(b, wing)
    /\ \A sq \in Between(b, wing) : getSquare(b, sq).piece = "EMPTY"
    /\ \A sq \in KingPath(b, wing) : ~isSquareAttacked(b, sq, Other(b.sideToMove))

\* the castle move towards the wing
CastleMove(b, wing) ==
    Move(toIndex(4, HomeRank(b.sideToMove)), toIndex(4 + 2 * wing.step, HomeRank(b.sideToMove)),
         "EMPTY", TRUE, FALSE)

\* C27: generatePseudoLegalMoves returns a castle move of the side to move
\* towards a wing if and only if the right for that wing is set, every square
\* strictly between the king home square and the rook home square is empty,
\* and none of the king's square, the square it passes over and its
\* destination is attacked by the opponent; the move goes from the king home
\* square two files towards the wing and has isCastle set.
C27_CastleEmittedIffAllowed ==
    {move \in MovesIn(generatePseudoLegalMoves(board)) : move.isCastle}
        = {CastleMove(board, wing) : wing \in {w \in Wings : MayCastle(board, w)}}

\* the right is set and the squares between king and rook are empty, but a
\* square on the king's path is attacked and no castle move is returned
C27_Witness ==
    \E wing \in Wings :
        /\ RightOf(board, wing)
        /\ \A sq \in Between(board, wing) : getSquare(board, sq).piece = "EMPTY"
        /\ \E sq \in KingPath(board, wing) : isSquareAttacked(board, sq, Other(board.sideToMove))
        /\ CastleMove(board, wing) \notin MovesIn(generatePseudoLegalMoves(board))

\* C28: in every position reached by legal moves, a castle move returned by
\* the generator, once applied, leaves the mover's king on the destination
\* square, a rook of the mover's colour on the square the king passed over,
\* the king home square and that wing's rook home square empty, both castling
\* rights of the mover cleared, no en-passant target, and the half-move clock
\* one more than before.
C28_CastleRelocatesKingAndRook ==
    (Applied /\ op = "makeMove" /\ lastMove.isCastle) =>
        LET mover == prev.sideToMove
            home == toIndex(4, HomeRank(mover))
            step == IF lastMove.to > lastMove.from THEN 1 ELSE -1
            rookHome == toIndex(IF step = 1 THEN 7 ELSE 0, HomeRank(mover))
            first == IF mover = "WHITE" THEN 0 ELSE 2
        IN  /\ lastMove.from = home
            /\ board.squares[lastMove.to] = Sq("KING", mover)
            /\ board.squares[home + step] = Sq("ROOK", mover)
            /\ board.squares[home] = EmptySquare
            /\ board.squares[rookHome] = EmptySquare
            /\ ~board.castlingRights[first] /\ ~board.castlingRights[first + 1]
            /\ board.enPassantSquare = -1
            /\ board.halfmoveClock = prev.halfmoveClock + 1

\* the position with colour to move
AsSideToMove(b, colour) == [b EXCEPT !.sideToMove = colour]

\* a move of a knight, bishop, rook, queen or king other than a castle, or a
\* move of a pawn that leaves its file
LandsByAttack(b, move) ==
    /\ ~move.isCastle
    /\ getSquare(b, move.from).piece = "PAWN" => FileOf(move.from) # FileOf(move.to)

\* the on-board squares diagonally ahead of a pawn of colour on sq
DiagonalForward(sq, colour) ==
    {toIndex(FileOf(sq) + df, RankOf(sq) + PawnDirection(colour)) :
        df \in {d \in {-1, 1} : OnBoard(FileOf(sq) + d, RankOf(sq) + PawnDirection(colour))}}

\* the on-board squares one and two ranks ahead of a pawn of colour on sq
PushSquares(sq, colour) ==
    {toIndex(FileOf(sq), RankOf(sq) + k * PawnDirection(colour)) :
        k \in {j \in {1, 2} : OnBoard(FileOf(sq), RankOf(sq) + j * PawnDirection(colour))}}

PawnsOf(b, colour) == {sq \in SquareIdx : b.squares[sq] = Sq("PAWN", colour)}

\* C29: for either colour, every square a pseudo-legal move of a knight,
\* bishop, rook, queen or king (castles aside) or a pawn capture of that
\* colour lands on is reported attacked by that colour; both on-board squares
\* diagonally ahead of a pawn are reported attacked whether empty or not; and
\* a pawn does not attack the squares straight ahead of it.
C29_AttacksAgreeWithMoves ==
    \A colour \in {"WHITE", "BLACK"} :
        /\ \A move \in MovesIn(generatePseudoLegalMoves(AsSideToMove(board, colour))) :
              LandsByAttack(board, move) => isSquareAttacked(board, move.to, colour)
        /\ \A sq \in PawnsOf(board, colour) :
              /\ \A square \in DiagonalForward(sq, colour) : isSquareAttacked(board, square, colour)
              /\ \A square \in PushSquares(sq, colour) : ~PawnAttacks(sq, colour, square)

\* after a move, a pawn has one square diagonally ahead empty, the other
\* held by a piece of its own colour, and an en-passant capture is on offer
C29_Witness ==
    /\ Applied
    /\ board.enPassantSquare # -1
    /\ \E move \in MovesIn(generatePseudoLegalMoves(board)) : move.isEnPassant
    /\ \E colour \in {"WHITE", "BLACK"} : \E sq \in PawnsOf(board, colour) :
          /\ \E square \in DiagonalForward(sq, colour) : getSquare(board, square).piece = "EMPTY"
          /\ \E square \in DiagonalForward(sq, colour) : getSquare(board, square).colour = colour

\* C30: after a generated en-passant move is applied the capturing pawn
\* stands on the en-passant target, its source square is empty, the square
\* one rank behind the target for the mover, where the opponent's pawn that
\* had advanced two squares stood, is empty, every other square is as before,
\* and the half-move clock is 0.
C30_EnPassantCapture ==
    (Applied /\ op = "makeMove" /\ lastMove.isEnPassant) =>
        LET mover == prev.sideToMove
            from == lastMove.from
            to == lastMove.to
            behind == toIndex(FileOf(to), RankOf(to) - PawnDirection(mover))
        IN  /\ to = prev.enPassantSquare
            /\ prev.squares[from] = Sq("PAWN", mover)
            /\ prev.squares[behind] = Sq("PAWN", Other(mover))
            /\ board.squares[to] = Sq("PAWN", mover)
            /\ board.squares[from] = EmptySquare
            /\ board.squares[behind] = EmptySquare
            /\ \A sq \in SquareIdx \ {from, to, behind} : board.squares[sq] = prev.squares[sq]
            /\ board.halfmoveClock = 0

\* an en-passant move returned by the generator was applied
C30_Witness ==
    /\ Applied
    /\ op = "makeMove"
    /\ lastMove.isEnPassant
    /\ lastMove \in MovesIn(generateLegalMoves(prev))
    /\ Cardinality({sq \in SquareIdx : board.squares[sq].piece = "PAWN"})
          = Cardinality({sq \in SquareIdx : prev.squares[sq].piece = "PAWN"}) - 1

\* the move takes a pawn to rank 8 or rank 1
PawnToLastRank(b, move) ==
    getSquare(b, move.from).piece = "PAWN" /\ RankOf(move.to) \in {0, 7}

\* the places of moves holding a move between the squares of move
Twins(moves, move) ==
    {i \in 1 .. Len(moves) : moves[i].from = move.from /\ moves[i].to = move.to}

\* the promotion rule over the moves of position b
PromotionsExpanded(b, moves) ==
    \A k \in 1 .. Len(moves) :
        IF PawnToLastRank(b, moves[k])
        THEN /\ moves[k].promotion # "EMPTY"
             /\ Cardinality(Twins(moves, moves[k])) = 4
             /\ {moves[i].promotion : i \in Twins(moves, moves[k])}
                   = {"QUEEN", "ROOK", "BISHOP", "KNIGHT"}
        ELSE moves[k].promotion = "EMPTY"

\* C31: every generated pawn move onto the last rank, by push or by capture,
\* appears as exactly four moves promoting to queen, rook, bishop and knight
\* and never without promotion; every other generated move has no promotion;
\* and no pawn stands on rank 1 or rank 8 in a position reached by generated
\* moves.
C31_PromotionExpansion ==
    /\ PromotionsExpanded(board, generatePseudoLegalMoves(board))
    /\ PromotionsExpanded(board, generateLegalMoves(board))
    /\ \A sq \in SquareIdx : RankOf(sq) \in {0, 7} => board.squares[sq].piece # "PAWN"

\* a pawn has promoted by capture, and the position before offered that
\* pawn promotions by capture
C31_Witness ==
    /\ Applied
    /\ op = "makeMove"
    /\ lastMove.promotion # "EMPTY"
    /\ FileOf(lastMove.from) # FileOf(lastMove.to)
    /\ board.squares[lastMove.to].piece = lastMove.promotion
    /\ Cardinality(Twins(generateLegalMoves(prev), lastMove)) = 4

Sign(x) == IF x > 0 THEN 1 ELSE IF x < 0 THEN -1 ELSE 0

\* the squares strictly between two squares of one rank, file or diagonal
PassedSquares(from, to) ==
    LET df == FileOf(to) - FileOf(from)
        dr == RankOf(to) - RankOf(from)
    IN  IF df = 0 \/ dr = 0 \/ Abs(df) = Abs(dr)
        THEN {toIndex(FileOf(from) + k * Sign(df), RankOf(from) + k * Sign(dr)) :
                 k \in 1 .. (Max(Abs(df), Abs(dr)) - 1)}
        ELSE {}

MobilityDifference(b) ==
    Len(generateLegalMoves(b))
    - Len(generateLegalMoves(AsSideToMove(b, Other(b.sideToMove))))

\* C33: the mobility term of the score is the number of legal moves of the
\* side to move minus the number of legal moves the opponent has on the same
\* board with the turn switched.
C33_MobilityIsMoveDifference ==
    evaluateMobility(board) = MobilityDifference(board)

\* Utils::mirrorIndex: the square on the same file with the rank reflected
mirrorIndex(index) ==
    LET file == index % 8
        rank == index \div 8
        mirroredRank == 7 - rank
    IN  mirroredRank * 8 + file

\* C34: a Black piece receives the table entry a White piece of the same
\* kind receives on the square Utils::mirrorIndex gives (same file, rank
\* reflected).
C34_BlackLookupRankReflected ==
    \A sq \in SquareIdx :
        board.squares[sq].colour = "BLACK" =>
            getPieceSquareValue(board.squares[sq].piece, sq, "BLACK")
                = getPieceSquareValue(board.squares[sq].piece, mirrorIndex(sq), "WHITE")

\* the moves of moves after which the side then to move is in check
ChecksGiven(b, moves) ==
    {i \in 1 .. Len(moves) :
        LET r == makeMove(b, moves[i])
        IN  r.ok /\ InCheck(r.board)}

\* C35: the checks counted by runDetailed at depth 1 are the moves after
\* which the king of the mover's opponent is attacked by the mover's side.
C35_ChecksCounted ==
    (op = "perft" /\ perft.call = "runDetailed" /\ perft.depth = 1) =>
        perft.results.checks = Cardinality(ChecksGiven(prev, generateLegalMoves(prev)))

\* the text of move read back in position b is move again, and applying the
\* text gives what applying move gives
ReadsBack(b, move) ==
    /\ parseMove(b, moveToString(move)) = [ok |-> TRUE, move |-> move]
    /\ makeMoveText(b, moveToString(move)) = makeMove(b, move)

\* C36: in every position reached by legal moves, each legal move written
\* by moveToString and parsed in that position is the same move in all five
\* fields, and applying the text gives the position applying the move gives.
C36_MoveTextRoundTrip ==
    \A move \in MovesIn(generateLegalMoves(board)) : ReadsBack(board, move)

\* a position reached by play with a legal promotion to a knight, written
\* with n and applied from its text, and a legal move written in four
\* characters
C36_Witness ==
    /\ Applied
    /\ \E move \in MovesIn(generateLegalMoves(board)) :
          /\ move.promotion = "KNIGHT"
          /\ moveToString(move)[5] = "n"
          /\ makeMoveText(board, moveToString(move)).ok
    /\ \E move \in MovesIn(generateLegalMoves(board)) :
          move.promotion = "EMPTY" /\ Len(moveToString(move)) = 4

\* the colour a castling right belongs to, and its rook home square
ColourOfRight(right) == IF right \in {0, 1} THEN "WHITE" ELSE "BLACK"

CornerOfRight(right) == CHOOSE sq \in SquareIdx : RightOfCorner(sq) = right

\* the king and the rook a castling right needs stand on their home squares
HomeSquaresHeld(b, right) ==
    /\ b.squares[toIndex(4, HomeRank(ColourOfRight(right)))] = Sq("KING", ColourOfRight(right))
    /\ b.squares[CornerOfRight(right)] = Sq("ROOK", ColourOfRight(right))

\* C37: in every position reached by legal moves a castling right that is
\* set implies the king of that colour on its home square and a rook of
\* that colour on the rook home square of the right, and every castle move
\* generated has that king and that rook in place.
C37_RightsImplyKingAndRookAtHome ==
    /\ \A right \in 0 .. 3 : board.castlingRights[right] => HomeSquaresHeld(board, right)
    /\ \A wing \in Wings :
          CastleMove(board, wing) \in MovesIn(generatePseudoLegalMoves(board)) =>
              HomeSquaresHeld(board, wing.right + (IF board.sideToMove = "WHITE" THEN 0 ELSE 2))

\* C38: in every position reached by legal moves a set en-passant target
\* lies on the third rank when Black is to move and on the sixth when White
\* is to move, the target square is empty, and the square in front of it,
\* seen from the side that just moved, holds a pawn of that side.
C38_EnPassantTargetWellPlaced ==
    board.enPassantSquare # -1 =>
        LET target == board.enPassantSquare
            moved == Other(board.sideToMove)
            ahead == IF moved = "WHITE" THEN target + BOARD_SIZE ELSE target - BOARD_SIZE
        IN  /\ RankOf(target) = (IF board.sideToMove = "BLACK" THEN 2 ELSE 5)
            /\ board.squares[target] = EmptySquare
            /\ board.squares[ahead] = Sq("PAWN", moved)

\* a target left by a two-square advance of a Black pawn, with a White pawn
\* beside the advanced pawn and an en-passant capture among the legal moves
C38_Witness ==
    /\ Applied
    /\ TwoSquarePawnAdvance(prev, lastMove)
    /\ board.sideToMove = "WHITE"
    /\ board.enPassantSquare = PassedOver(lastMove)
    /\ \E move \in MovesIn(generateLegalMoves(board)) :
          move.isEnPassant /\ move.to = board.enPassantSquare

\* C39: during findBestMove(position, depth) with depth >= 0 no minimax call
\* has a negative depth argument, and the calls are nested at most depth
\* deep below the root.
C39_DepthBoundsDescent ==
    search.pc \in {"loop", "called"} =>
        /\ \A i \in 1 .. Len(search.stack) : search.stack[i].depth >= 0
        /\ Len(search.stack) <= search.depth

\* C40: runDetailed(position, depth).nodes equals run(position, depth),
\* both leave the position passed in as it was, and at depth 0 both count
\* exactly 1 node.
C40_DetailedCountsSameNodes ==
    op = "perft" =>
        /\ board = prev
        /\ perft.call = "runDetailed" => perft.nodes = run(prev, perft.depth)
        /\ perft.call = "run" => perft.nodes = runDetailed(prev, perft.depth).nodes
        /\ perft.depth = 0 => perft.nodes = 1

\* a count of runDetailed two plies deep after the first move of a game,
\* and of more than 400 nodes
C40_Witness ==
    /\ op = "perft"
    /\ perft.call = "runDetailed"
    /\ perft.depth = MaxCountDepth
    /\ scriptPos = 1
    /\ perft.nodes > 400
    /\ perft.results.captures = 0

====
